---- MODULE Spec2Model ----
(***************************************************************************)
(* Context & knowledge coordination layer of DeepResearchPro:              *)
(* ContextManager, KnowledgeGraphManager and ContextOrchestrator.          *)
(*                                                                         *)
(* Python objects that the code mutates in place (lists extended, dicts    *)
(* updated) live in two heaps, lists and dicts, and are held by reference, *)
(* so that two holders of one object see each other's changes as they do   *)
(* in the interpreter.  Values the code only ever replaces are inline.     *)
(* Confidence scores are in tenths (5 is 0.5).  A node id                  *)
(* "node_<task>_<n>" is the pair <<task, n>>.                              *)
(***************************************************************************)
EXTENDS Integers, Sequences, FiniteSets, TLC

VARIABLES
  orch,   \* the orchestrator instances of the process, by slot
  lists,  \* heap of list objects
  dicts,  \* heap of dict objects
  snap,   \* the snapshot a caller of create_snapshot holds, and its value when taken
  last,   \* the call made by the last step, with its arguments and its outcome
  steps,  \* number of calls made
  comp,   \* a call of _compress_context_for_agent: its arguments and what it returned
  pipe    \* a run of the research workflow: its position and what it has done

vars == <<orch, lists, dicts, snap, last, steps, comp, pipe>>

(* ----------------------------- bounds --------------------------------- *)

MaxSteps == 4
MaxQueue == 3
MaxNodeCount == 2

Inst == {1, 2}

(* ------------------------- small helpers ------------------------------ *)

Min(a, b) == IF a < b THEN a ELSE b

Take(s, n) == SubSeq(s, 1, Min(n, Len(s)))

\* dict.update(v): v's keys override d's, the other keys of d stay
DictUpdate(d, v) ==
  [k \in (DOMAIN d) \cup (DOMAIN v) |-> IF k \in DOMAIN v THEN v[k] ELSE d[k]]

\* dict.get(k, default)
DictGet(d, k, default) == IF k \in DOMAIN d THEN d[k] ELSE default

EmptyDict == <<>>

\* a new object on a heap: the heap with the object, its reference is the new length
Alloc(heap, v) == Append(heap, v)

(* ----------------------------- CoreContext ---------------------------- *)

CoreKeys ==
  {"task_id", "query", "research_plan", "verified_facts", "current_phase",
   "key_entities", "constraints", "review_feedback"}

\* CoreContext(task_id=..., query=...), the dataclass defaults
CoreContext(task_id, query) ==
  [task_id |-> task_id, query |-> query, research_plan |-> <<>>,
   verified_facts |-> <<>>, current_phase |-> "pending", key_entities |-> <<>>,
   constraints |-> <<>>, review_feedback |-> EmptyDict]

\* CoreContext.to_dict: a new dict, each value the object the field holds
CoreToDict(core) ==
  [task_id |-> core.task_id, query |-> core.query,
   research_plan |-> core.research_plan, verified_facts |-> core.verified_facts,
   current_phase |-> core.current_phase, key_entities |-> core.key_entities,
   constraints |-> core.constraints, review_feedback |-> core.review_feedback]

\* CoreContext.from_dict: cls(**data)
CoreContextFromDict(data) ==
  [task_id |-> data.task_id, query |-> data.query,
   research_plan |-> data.research_plan, verified_facts |-> data.verified_facts,
   current_phase |-> data.current_phase, key_entities |-> data.key_entities,
   constraints |-> data.constraints, review_feedback |-> data.review_feedback]

\* a KnowledgeNode.to_dict dict as json.dumps serialises it: the related-node list is read
\* through its reference
NodeDictValue(nd, ls) == [nd EXCEPT !.related_node_ids = ls[nd.related_node_ids]]

\* CoreContext.to_dict as json.dumps serialises it
CoreValue(core, ls) ==
  [CoreToDict(core) EXCEPT !.verified_facts =
     [i \in DOMAIN core.verified_facts |-> NodeDictValue(core.verified_facts[i], ls)]]

\* CoreContext.get_hash: md5 of the sorted-keys JSON text of to_dict; the digest
\* is modelled by the text it digests
GetHash(core, ls) == <<"md5", CoreValue(core, ls)>>

(* ---------------------------- ExtendedContext ------------------------- *)

AgentTypes ==
  {"planner", "searcher", "curator", "analyzer", "writer", "citer", "reviewer"}

\* no entry for the agent in extended_contexts
NoExtended ==
  [present |-> FALSE, agent_type |-> "", working_data |-> 0,
   intermediate_results |-> 0, source_references |-> 0, notes |-> 0]

\* ExtendedContext.to_dict: a new dict holding the context's own list and dict
\* objects (present marks an entry of the extended_contexts mapping)
ExtendedToDict(ctx) ==
  [present |-> ctx.present, agent_type |-> ctx.agent_type,
   working_data |-> ctx.working_data,
   intermediate_results |-> ctx.intermediate_results,
   source_references |-> ctx.source_references, notes |-> ctx.notes]

\* ExtendedContext.from_dict: cls(**data)
ExtendedContextFromDict(data) ==
  [present |-> data.present, agent_type |-> data.agent_type,
   working_data |-> data.working_data,
   intermediate_results |-> data.intermediate_results,
   source_references |-> data.source_references, notes |-> data.notes]

\* ExtendedContext.to_dict as json.dumps serialises it
ExtendedValue(ctx, ls, ds) ==
  [agent_type |-> ctx.agent_type, working_data |-> ds[ctx.working_data],
   intermediate_results |-> ls[ctx.intermediate_results],
   source_references |-> ls[ctx.source_references],
   notes |-> ls[ctx.notes]]

ExtendedContextsValue(exts, ls, ds) ==
  [a \in {b \in AgentTypes : exts[b].present} |-> ExtendedValue(exts[a], ls, ds)]

(* ------------------------------- texts -------------------------------- *)

\* A Python str is a TLA+ string; Chars spells out the characters of the texts
\* that node contents, search keywords and candidate contents take here.
Chars(text) ==
  CASE text = "c1" -> <<"c", "1">>
    [] text = "c2" -> <<"c", "2">>
    [] text = "ab cd" -> <<"a", "b", " ", "c", "d">>
    [] text = "ab ef" -> <<"a", "b", " ", "e", "f">>
    [] text = "Ab, x" -> <<"A", "b", ",", " ", "x">>
    [] text = "ab" -> <<"a", "b">>
    [] text = "b" -> <<"b">>
    [] text = "cd" -> <<"c", "d">>
    [] text = "a b c d" -> <<"a", " ", "b", " ", "c", " ", "d">>
    [] text = "A b c d e" -> <<"A", " ", "b", " ", "c", " ", "d", " ", "e">>
    [] text = "a b c x" -> <<"a", " ", "b", " ", "c", " ", "x">>
    [] text = "a, b c d" -> <<"a", ",", " ", "b", " ", "c", " ", "d">>

Whitespace == {" "}
Punctuation == {",", "."}

LowerChar(c) == CASE c = "A" -> "a" [] OTHER -> c

\* str.lower()
Lower(s) == [i \in DOMAIN s |-> LowerChar(s[i])]

\* str.split(): the runs of characters between whitespace
Split(s) ==
  LET RECURSIVE Words(_, _, _)
      Words(i, word, words) ==
        LET closed == IF word = <<>> THEN words ELSE Append(words, word)
        IN IF i > Len(s) THEN closed
           ELSE IF s[i] \in Whitespace THEN Words(i + 1, <<>>, closed)
                ELSE Words(i + 1, Append(word, s[i]), words)
  IN Words(1, <<>>, <<>>)

\* keyword in text
Contains(text, keyword) ==
  \E i \in 0..(Len(text) - Len(keyword)) : SubSeq(text, i + 1, i + Len(keyword)) = keyword

NotPunctuation(c) == c \notin Punctuation
LongerThanOne(word) == Len(word) > 1

\* KnowledgeGraphManager._tokenize_content: re.sub of every character that is no
\* word character and no whitespace, on the lowered text, then the words of more
\* than one character
TokenizeContent(content) ==
  SelectSeq(Split(SelectSeq(Lower(Chars(content)), NotPunctuation)), LongerThanOne)

\* set(content.lower().split())
WordSet(content) ==
  LET words == Split(Lower(Chars(content))) IN {words[k] : k \in DOMAIN words}

(* ------------------------------ KnowledgeNode ------------------------- *)

NodeTypes == {"fact", "entity", "relation", "insight", "claim"}

DefaultConfidence == 5
ConfidenceBoost == 2
FullConfidence == 10
VerifiedThreshold == 2
MaxVerifiedFacts == 20

\* KnowledgeNode.to_dict (metadata and the two timestamps, which no operation of
\* the store reads, are left out): scalars are copied, the lists are the node's own
NodeToDict(node) ==
  [id |-> node.id, node_type |-> node.node_type, content |-> node.content,
   source_ids |-> node.source_ids, created_by_agent |-> node.created_by_agent,
   confidence_score |-> node.confidence_score,
   verification_status |-> node.verification_status,
   verification_count |-> node.verification_count,
   related_node_ids |-> node.related_node_ids, version |-> node.version]

KnowledgeNodeFromDictDefaultStatus(data) ==
  [id |-> data.id, node_type |-> data.node_type, content |-> data.content,
   source_ids |-> data.source_ids, created_by_agent |-> data.created_by_agent,
   confidence_score |-> data.confidence_score,
   verification_status |-> "unverified",
   verification_count |-> data.verification_count,
   related_node_ids |-> data.related_node_ids, version |-> data.version]

\* KnowledgeNode.from_dict: NodeType(...) and VerificationStatus(...) of the two
\* enum values, then cls(**data)
KnowledgeNodeFromDict(data) ==
  [id |-> data.id, node_type |-> data.node_type, content |-> data.content,
   source_ids |-> data.source_ids, created_by_agent |-> data.created_by_agent,
   confidence_score |-> data.confidence_score,
   verification_status |-> data.verification_status,
   verification_count |-> data.verification_count,
   related_node_ids |-> data.related_node_ids, version |-> data.version]

\* KnowledgeGraphManager(task_id): no nodes, empty indices and an empty query
\* cache (index_stats, counters that no operation reads, are left out)
KnowledgeGraphManager(task_id) ==
  [task_id |-> task_id, node_counter |-> 0, nodes |-> <<>>,
   content_index |-> EmptyDict, type_index |-> EmptyDict, agent_index |-> EmptyDict,
   query_cache |-> EmptyDict]

\* an item of the dict self.nodes: the key it is stored under and the node's
\* attributes (the id among them, which add_node sets to the key)
NodeEntry(key, node) ==
  [key |-> key, id |-> node.id, node_type |-> node.node_type, content |-> node.content,
   source_ids |-> node.source_ids, created_by_agent |-> node.created_by_agent,
   confidence_score |-> node.confidence_score,
   verification_status |-> node.verification_status,
   verification_count |-> node.verification_count,
   related_node_ids |-> node.related_node_ids, version |-> node.version]

\* self.nodes.get(node_id): the place of the key, 0 for None
NodeIndex(kg, id) ==
  IF \E i \in DOMAIN kg.nodes : kg.nodes[i].key = id
  THEN CHOOSE i \in DOMAIN kg.nodes : kg.nodes[i].key = id
  ELSE 0

\* self.nodes[node_id] = node: a dict keeps the place of a key it already holds
PutNode(nodes, node) ==
  IF \E i \in DOMAIN nodes : nodes[i].key = node.key
  THEN [i \in DOMAIN nodes |-> IF nodes[i].key = node.key THEN node ELSE nodes[i]]
  ELSE Append(nodes, node)

\* index[key].append(id), after index[key] = [] for a key the index lacks
IndexAppend(index, key, id) ==
  [k \in (DOMAIN index) \cup {key} |->
     IF k = key THEN Append(DictGet(index, key, <<>>), id) ELSE index[k]]

\* KnowledgeGraphManager._update_content_index: the node's id under each word of
\* its content, once
UpdateContentIndex(content_index, node) ==
  LET words == TokenizeContent(node.content)
      RECURSIVE Indexed(_)
      Indexed(i) ==
        IF i = 0 THEN content_index
        ELSE LET index == Indexed(i - 1)
                 ids == DictGet(index, words[i], <<>>)
             IN IF \E k \in DOMAIN ids : ids[k] = node.id
                THEN [k \in (DOMAIN index) \cup {words[i]} |->
                        IF k = words[i] THEN ids ELSE index[k]]
                ELSE IndexAppend(index, words[i], node.id)
  IN Indexed(Len(words))

\* KnowledgeGraphManager._update_indices
UpdateIndices(kg, node) ==
  [kg EXCEPT !.content_index = UpdateContentIndex(@, node),
             !.type_index = IndexAppend(@, node.node_type, node.id),
             !.agent_index = IndexAppend(@, node.created_by_agent, node.id)]

\* KnowledgeGraphManager.add_node on world w = [o, lists, dicts]
AddNode(w, node_type, content, source_ids, created_by_agent, confidence_score) ==
  LET kg == w.o.kg
      n == kg.node_counter + 1
      ls == Alloc(w.lists, <<>>)
      node == [key |-> <<kg.task_id, n>>,
               id |-> <<kg.task_id, n>>, node_type |-> node_type,
               content |-> content, source_ids |-> source_ids,
               created_by_agent |-> created_by_agent,
               confidence_score |-> confidence_score,
               verification_status |-> "unverified", verification_count |-> 0,
               related_node_ids |-> Len(ls), version |-> 1]
  IN [w EXCEPT !.o.kg = UpdateIndices([kg EXCEPT !.node_counter = n,
                                                 !.nodes = PutNode(kg.nodes, node)],
                                      node),
               !.lists = ls]

\* KnowledgeGraphManager.update_node: setattr for every key of the patch that is an
\* attribute of the node, the id and the version among them, then version += 1;
\* the node stays under its key in self.nodes
UpdateNode(kg, node_id, updates) ==
  LET i == NodeIndex(kg, node_id)
  IN IF i = 0 THEN kg
     ELSE LET node == kg.nodes[i]
              Patched(f) == IF f \in DOMAIN updates THEN updates[f] ELSE node[f]
          IN [kg EXCEPT !.nodes[i] =
                [key |-> node.key, id |-> Patched("id"),
                 node_type |-> Patched("node_type"), content |-> Patched("content"),
                 source_ids |-> Patched("source_ids"),
                 created_by_agent |-> Patched("created_by_agent"),
                 confidence_score |-> Patched("confidence_score"),
                 verification_status |-> Patched("verification_status"),
                 verification_count |-> Patched("verification_count"),
                 related_node_ids |-> Patched("related_node_ids"),
                 version |-> Patched("version") + 1]]

\* KnowledgeGraphManager.verify_node
VerifyNode(kg, node_id) ==
  LET i == NodeIndex(kg, node_id)
  IN IF i = 0 THEN kg
     ELSE LET c == kg.nodes[i].verification_count + 1
          IN IF c >= VerifiedThreshold
             THEN [kg EXCEPT !.nodes[i].verification_count = c,
                             !.nodes[i].verification_status = "verified",
                             !.nodes[i].confidence_score =
                                Min(FullConfidence, @ + ConfidenceBoost)]
             ELSE [kg EXCEPT !.nodes[i].verification_count = c]

MarkConflictingAlwaysAppends(w, node_id, conflicting_node_id) ==
  LET kg == w.o.kg
      i == NodeIndex(kg, node_id)
  IN IF i = 0 THEN w
     ELSE [w EXCEPT !.o.kg.nodes[i].verification_status = "conflicting",
                    !.lists[kg.nodes[i].related_node_ids] = Append(@, conflicting_node_id)]

MarkConflictingBothNodes(w, node_id, conflicting_node_id) ==
  LET kg == w.o.kg
      i == NodeIndex(kg, node_id)
      j == NodeIndex(kg, conflicting_node_id)
  IN IF i = 0 THEN w
     ELSE LET r == kg.nodes[i].related_node_ids
              has == \E k \in DOMAIN w.lists[r] : w.lists[r][k] = conflicting_node_id
              w1 == [w EXCEPT !.o.kg.nodes[i].verification_status = "conflicting",
                              !.lists[r] = IF has THEN @ ELSE Append(@, conflicting_node_id)]
          IN IF j = 0 THEN w1
             ELSE [w1 EXCEPT !.o.kg.nodes[j].verification_status = "conflicting"]

\* KnowledgeGraphManager.mark_conflicting: the status is set on the node, the other
\* id is appended to the node's own related list object
MarkConflicting(w, node_id, conflicting_node_id) ==
  LET kg == w.o.kg
      i == NodeIndex(kg, node_id)
  IN IF i = 0 THEN w
     ELSE LET r == kg.nodes[i].related_node_ids
              has == \E j \in DOMAIN w.lists[r] : w.lists[r][j] = conflicting_node_id
          IN [w EXCEPT !.o.kg.nodes[i].verification_status = "conflicting",
                       !.lists[r] = IF has THEN @ ELSE Append(@, conflicting_node_id)]

IsVerified(node) == node.verification_status = "verified"

GetVerifiedFactsAnyStatus(kg) == kg.nodes

\* KnowledgeGraphManager.get_verified_facts
GetVerifiedFacts(kg) == SelectSeq(kg.nodes, IsVerified)

\* len(self.query_cache) < 100
MaxCachedQueries == 100

\* KnowledgeGraphManager.search_nodes past its cache: the ids the content index
\* holds for the words of the keyword; when there are none, the keys of the nodes
\* whose lowered content contains the lowered keyword
CandidateIds(kg, keyword) ==
  LET query_words == TokenizeContent(keyword)
      indexed == UNION {{kg.content_index[query_words[k]][j] :
                           j \in DOMAIN kg.content_index[query_words[k]]} :
                        k \in {m \in DOMAIN query_words :
                                 query_words[m] \in DOMAIN kg.content_index}}
  IN IF indexed # {} THEN indexed
     ELSE {kg.nodes[n].key : n \in {m \in DOMAIN kg.nodes :
              Contains(Lower(Chars(kg.nodes[m].content)), Lower(Chars(keyword)))}}

\* KnowledgeGraphManager.search_nodes: the store after the call and the keys of
\* the nodes returned.  A cached query returns the nodes of the cached ids that
\* the store still holds; a new one is cached while the cache has room
SearchNodes(kg, keyword) ==
  LET keys == {kg.nodes[n].key : n \in DOMAIN kg.nodes}
  IN IF keyword \in DOMAIN kg.query_cache
     THEN [kg |-> kg, result |-> kg.query_cache[keyword] \cap keys]
     ELSE LET candidate_ids == CandidateIds(kg, keyword)
          IN [kg |-> IF Cardinality(DOMAIN kg.query_cache) < MaxCachedQueries
                     THEN [kg EXCEPT !.query_cache =
                             [k \in (DOMAIN @) \cup {keyword} |->
                                IF k = keyword THEN candidate_ids ELSE @[k]]]
                     ELSE kg,
              result |-> candidate_ids \cap keys]

\* overlap > 3
ConflictThreshold == 3

DetectConflictsFromThreshold(kg, new_content, node_type) ==
  LET Conflicts(node) ==
        /\ node.node_type = node_type
        /\ Cardinality(WordSet(new_content) \cap WordSet(node.content))
             >= ConflictThreshold
  IN SelectSeq(kg.nodes, Conflicts)

\* KnowledgeGraphManager.detect_conflicts
DetectConflicts(kg, new_content, node_type) ==
  LET Conflicts(node) ==
        /\ node.node_type = node_type
        /\ Cardinality(WordSet(new_content) \cap WordSet(node.content))
             > ConflictThreshold
  IN SelectSeq(kg.nodes, Conflicts)

(* ------------------------------ ContextManager ------------------------ *)

UpdateCoreContextAlwaysRecords(w, updates) ==
  LET old_hash == GetHash(w.o.core, w.lists)
      core == [k \in CoreKeys |->
                 IF k \in DOMAIN updates THEN updates[k] ELSE w.o.core[k]]
  IN [w EXCEPT !.o.core = core,
               !.o.history = Append(@, [old_hash |-> old_hash,
                                        new_hash |-> GetHash(core, w.lists),
                                        changes |-> (DOMAIN updates) \cap CoreKeys])]

\* ContextManager.update_core_context on world w: only attributes of the core
\* context are set; one history entry when the hash changed
UpdateCoreContext(w, updates) ==
  LET old_hash == GetHash(w.o.core, w.lists)
      core == [k \in CoreKeys |->
                 IF k \in DOMAIN updates THEN updates[k] ELSE w.o.core[k]]
      new_hash == GetHash(core, w.lists)
  IN [w EXCEPT !.o.core = core,
               !.o.history =
                  IF old_hash # new_hash
                  THEN Append(@, [old_hash |-> old_hash, new_hash |-> new_hash,
                                  changes |-> (DOMAIN updates) \cap CoreKeys])
                  ELSE @]

\* ContextManager.get_or_create_extended_context: ExtendedContext(agent_type) with
\* a dict and three lists of its own
GetOrCreateExtendedContext(w, agent_type) ==
  IF w.o.ext[agent_type].present THEN w
  ELSE LET ds == Alloc(w.dicts, EmptyDict)
           l1 == Alloc(w.lists, <<>>)
           l2 == Alloc(l1, <<>>)
           l3 == Alloc(l2, <<>>)
       IN [w EXCEPT !.o.ext[agent_type] =
                       [present |-> TRUE, agent_type |-> agent_type,
                        working_data |-> Len(ds), intermediate_results |-> Len(l1),
                        source_references |-> Len(l2), notes |-> Len(l3)],
                    !.lists = l3, !.dicts = ds]

UpdateExtendedContextReplaces(w, agent_type, updates) ==
  LET w1 == GetOrCreateExtendedContext(w, agent_type)
      ctx == w1.o.ext[agent_type]
      ListAfter(ls, f) ==
        IF f \in DOMAIN updates THEN [ls EXCEPT ![ctx[f]] = updates[f]] ELSE ls
      la == ListAfter(w1.lists, "intermediate_results")
      lb == ListAfter(la, "source_references")
      lc == ListAfter(lb, "notes")
  IN [w1 EXCEPT !.lists = lc,
                !.dicts = IF "working_data" \in DOMAIN updates
                          THEN [@ EXCEPT ![ctx.working_data] = updates.working_data]
                          ELSE @,
                !.o.ext[agent_type].agent_type =
                          IF "agent_type" \in DOMAIN updates
                          THEN updates.agent_type ELSE @]

UpdateExtendedContextSharedLists(w, agent_type, updates) ==
  LET w1 == GetOrCreateExtendedContext(w, agent_type)
      ctx == w1.o.ext[agent_type]
      Held(k, f) == \E a \in AgentTypes : w1.o.ext[a].present /\ w1.o.ext[a][f] = k
      ListAfter(ls, f) ==
        IF f \in DOMAIN updates
        THEN [k \in DOMAIN ls |-> IF Held(k, f) THEN ls[k] \o updates[f] ELSE ls[k]]
        ELSE ls
      la == ListAfter(w1.lists, "intermediate_results")
      lb == ListAfter(la, "source_references")
      lc == ListAfter(lb, "notes")
  IN [w1 EXCEPT !.lists = lc,
                !.dicts = IF "working_data" \in DOMAIN updates
                          THEN [@ EXCEPT ![ctx.working_data] =
                                  DictUpdate(@, updates.working_data)]
                          ELSE @,
                !.o.ext[agent_type].agent_type =
                          IF "agent_type" \in DOMAIN updates
                          THEN updates.agent_type ELSE @]

\* ContextManager.update_extended_context: a list field is extended in place, the
\* working-data dict is updated in place, agent_type is overwritten, a key that is
\* no attribute is skipped.  Patch values have the type of the field they patch.
UpdateExtendedContext(w, agent_type, updates) ==
  LET w1 == GetOrCreateExtendedContext(w, agent_type)
      ctx == w1.o.ext[agent_type]
      ListAfter(ls, f) ==
        IF f \in DOMAIN updates THEN [ls EXCEPT ![ctx[f]] = @ \o updates[f]] ELSE ls
      la == ListAfter(w1.lists, "intermediate_results")
      lb == ListAfter(la, "source_references")
      lc == ListAfter(lb, "notes")
  IN [w1 EXCEPT !.lists = lc,
                !.dicts = IF "working_data" \in DOMAIN updates
                          THEN [@ EXCEPT ![ctx.working_data] =
                                  DictUpdate(@, updates.working_data)]
                          ELSE @,
                !.o.ext[agent_type].agent_type =
                          IF "agent_type" \in DOMAIN updates
                          THEN updates.agent_type ELSE @]

\* a character between U+4E00 and U+9FFF, and the class of every other character
Chinese == {"han"}
OtherCharacters == {"a"}

\* ContextManager.estimate_tokens on the characters of a text
EstimateTokens(text) ==
  LET chinese_chars == Cardinality({i \in DOMAIN text : text[i] \in Chinese})
      other_chars == Len(text) - chinese_chars
  IN chinese_chars \div 2 + other_chars \div 4

\* ContextManager.get_context_for_agent before its compression branch (which
\* AlignContextForAgentAt applies to what it takes from here): core and extended
\* are the to_dict() dicts, whose list and dict values are the stored objects
\* themselves
GetContextForAgent(w, agent_type) ==
  LET w1 == GetOrCreateExtendedContext(w, agent_type)
  IN [w |-> w1,
      core_context |-> CoreToDict(w1.o.core),
      extended_context |-> ExtendedToDict(w1.o.ext[agent_type]),
      context_hash |-> GetHash(w1.o.core, w1.lists)]

\* ContextManager.create_snapshot: to_dict() of the core and of every extended
\* context (the dicts are new, their list and dict values are the stored objects)
CreateSnapshot(o, ls, snapshot_type, agent_type) ==
  [snapshot_type |-> snapshot_type, agent_type |-> agent_type,
   core_context |-> CoreToDict(o.core),
   extended_contexts |-> [a \in AgentTypes |-> ExtendedToDict(o.ext[a])],
   context_hash |-> GetHash(o.core, ls), version |-> Len(o.history) + 1]

\* what a reader of the snapshot sees
SnapshotValue(s, ls, ds) ==
  [core_context |-> CoreValue(s.core_context, ls),
   extended_contexts |-> ExtendedContextsValue(s.extended_contexts, ls, ds),
   context_hash |-> s.context_hash, version |-> s.version]

\* ContextManager.add_to_summary_chain
AddToSummaryChain(w, summary) ==
  [w EXCEPT !.lists[w.o.summary_chain] =
     Append(@, [summary |-> summary, context_hash |-> GetHash(w.o.core, w.lists)])]

\* ContextManager.get_summary_chain
GetSummaryChain(o, ls) ==
  [i \in DOMAIN ls[o.summary_chain] |-> ls[o.summary_chain][i].summary]

(* ---------------------------- ContextOrchestrator --------------------- *)

\* an instance slot that holds no orchestrator
NoOrchestrator ==
  [live |-> FALSE, task_id |-> 0, query |-> "",
   core |-> CoreContext(0, ""), ext |-> [a \in AgentTypes |-> NoExtended],
   history |-> <<>>, summary_chain |-> 0, kg |-> KnowledgeGraphManager(0),
   message_queue |-> <<>>, execution_history |-> <<>>, global_errors |-> 0]

\* ContextOrchestrator.__init__ (with ContextManager.__init__ and
\* KnowledgeGraphManager.__init__): every container is a new object
NewOrchestrator(ls, ds, task_id, query) ==
  LET l1 == Alloc(ls, <<>>)
      l2 == Alloc(l1, <<>>)
  IN [o |-> [live |-> TRUE, task_id |-> task_id, query |-> query,
             core |-> CoreContext(task_id, query),
             ext |-> [a \in AgentTypes |-> NoExtended],
             history |-> <<>>, summary_chain |-> Len(l1),
             kg |-> KnowledgeGraphManager(task_id),
             message_queue |-> <<>>, execution_history |-> <<>>,
             global_errors |-> Len(l2)],
      lists |-> l2, dicts |-> ds]

\* KnowledgeGraphManager.get_high_confidence_nodes (threshold 0.7)
HighConfidenceThreshold == 7
InsightThreshold == 6
MaxKeyEntities == 10
MaxKeyInsights == 5

IsHighConfidence(node) == node.confidence_score >= HighConfidenceThreshold
IsEntity(node) == node.node_type = "entity"
IsKeyInsight(node) ==
  node.node_type = "insight" /\ node.confidence_score >= InsightThreshold

\* KnowledgeGraphManager.export_for_context (content[:200] keeps the short
\* contents of this model whole)
ExportForContext(kg) ==
  LET verified == GetVerifiedFacts(kg)
      Brief(s) == [i \in DOMAIN s |->
                     [id |-> s[i].id, type |-> s[i].node_type, content |-> s[i].content]]
      Contents(s) == [i \in DOMAIN s |-> s[i].content]
  IN [total_nodes |-> Len(kg.nodes),
      verified_count |-> Len(verified),
      high_confidence_count |-> Len(SelectSeq(kg.nodes, IsHighConfidence)),
      verified_facts |-> Brief(Take(verified, MaxVerifiedFacts)),
      key_entities |-> Take(Contents(SelectSeq(kg.nodes, IsEntity)), MaxKeyEntities),
      key_insights |-> Take(Contents(SelectSeq(kg.nodes, IsKeyInsight)), MaxKeyInsights)]

(* ------------------------------- messages ----------------------------- *)

InsertAt(s, i, m) == SubSeq(s, 1, i - 1) \o <<m>> \o SubSeq(s, i, Len(s))

SendMessageAppend(queue, message) == Append(queue, message)

\* ContextOrchestrator.send_message: before the first queued message of lower
\* priority, else at the end
SendMessage(queue, message) ==
  IF \E i \in DOMAIN queue : message.priority > queue[i].priority
  THEN InsertAt(queue,
                CHOOSE i \in DOMAIN queue :
                   /\ message.priority > queue[i].priority
                   /\ \A j \in 1..(i - 1) : ~(message.priority > queue[j].priority),
                message)
  ELSE Append(queue, message)

GetMessagesForAgentKeepsBroadcast(queue, agent_type) ==
  LET Mine(m) == m.to_agent = agent_type \/ m.to_agent = "broadcast"
      Other(m) == m.to_agent # agent_type
  IN [messages |-> SelectSeq(queue, Mine), remaining |-> SelectSeq(queue, Other)]

\* ContextOrchestrator._get_messages_for_agent: the messages for the agent or for
\* "broadcast", and the queue that remains
GetMessagesForAgent(queue, agent_type) ==
  LET Mine(m) == m.to_agent = agent_type \/ m.to_agent = "broadcast"
      Other(m) == ~Mine(m)
  IN [messages |-> SelectSeq(queue, Mine), remaining |-> SelectSeq(queue, Other)]

\* AgentMessage(from_agent, to_agent, content, priority): the timestamp is the
\* clock's reading when the message is made
AgentMessage(from_agent, to_agent, content, priority, now) ==
  [from_agent |-> from_agent, to_agent |-> to_agent, content |-> content,
   priority |-> priority, timestamp |-> now]

\* ContextOrchestrator.broadcast_message
BroadcastMessage(queue, from_agent, content, priority, now) ==
  SendMessage(queue, AgentMessage(from_agent, "broadcast", content, priority, now))

(***************************************************************************)
(* Context compression: ContextManager._compress_context_for_agent.       *)
(*                                                                         *)
(* A JSON value carries its type: Str, List, Dict or Num.  A string is the *)
(* number of characters of its text that it still holds and the number of *)
(* characters of "..." marks after them.  A ratio is a fraction num/den.  *)
(***************************************************************************)

Str(n) == [t |-> "str", text |-> n, dots |-> 0]
List(s) == [t |-> "list", v |-> s]
Dict(d) == [t |-> "dict", v |-> d]
Num(n) == [t |-> "num", v |-> n]

StrLen(s) == s.text + s.dots

\* COMPRESSION_LEVELS: the ratio of each level, in hundredths
CompressionLevels == [minimal |-> 90, moderate |-> 75, aggressive |-> 60]

\* AGENT_COMPRESSION_STRATEGIES
AgentCompressionStrategies ==
  [planner |-> [level |-> "minimal", preserve_keys |-> {"query", "research_plan"}],
   searcher |-> [level |-> "minimal", preserve_keys |-> {"verified_facts", "key_entities"}],
   curator |-> [level |-> "moderate", preserve_keys |-> {"source_references", "insights"}],
   analyzer |-> [level |-> "aggressive", preserve_keys |-> {"insights", "key_facts"}],
   writer |-> [level |-> "moderate",
               preserve_keys |-> {"insights", "key_facts", "analysis_summary"}],
   citer |-> [level |-> "minimal", preserve_keys |-> {"report", "source_references"}],
   reviewer |-> [level |-> "minimal", preserve_keys |-> {"report", "review_feedback"}]]

LongText == 100
EllipsisLen == 3
DefaultScore == 5

\* max(a, b) of two ratios
RatioMax(a, b) == IF a.num * b.den >= b.num * a.den THEN a ELSE b

\* int(n * ratio)
Scaled(n, ratio) == (n * ratio.num) \div ratio.den

\* value[:max_length] + "..."
Truncated(s, max_length) ==
  IF max_length <= s.text
  THEN [t |-> "str", text |-> max_length, dots |-> EllipsisLen]
  ELSE [t |-> "str", text |-> s.text, dots |-> (max_length - s.text) + EllipsisLen]

\* sorted(data, key=lambda x: x.get(field, 0.5) if isinstance(x, dict) else 0,
\* reverse=True): a stable sort, elements of equal key stay in their order
SortedDesc(data, field) ==
  LET Score(x) == IF x.t = "dict" THEN DictGet(x.v, field, Num(DefaultScore)).v ELSE 0
      Before(sorted, x) == Cardinality({k \in DOMAIN sorted : Score(sorted[k]) >= Score(x)})
      RECURSIVE Sorted(_)
      Sorted(i) == IF i = 0 THEN <<>>
                   ELSE LET sorted == Sorted(i - 1)
                        IN InsertAt(sorted, Before(sorted, data[i]) + 1, data[i])
  IN Sorted(Len(data))

\* ContextManager._compress_list
CompressList(data, ratio, key_name) ==
  IF data = <<>> THEN data
  ELSE LET scaled == Scaled(Len(data), ratio)
           keep_count == IF scaled < 1 THEN 1 ELSE scaled
       IN IF key_name \in {"verified_facts", "insights", "key_facts"}
          THEN Take(SortedDesc(data, "confidence"), keep_count)
          ELSE IF key_name = "source_references"
               THEN Take(SortedDesc(data, "relevance_score"), keep_count)
               ELSE Take(data, keep_count)

RECURSIVE CompressDict(_, _, _)

CompressDictNoPreserve(data, ratio, preserve_keys) ==
  [key \in DOMAIN data |->
     LET value == data[key]
     IN IF value.t = "list" THEN List(CompressList(value.v, ratio, key))
        ELSE IF value.t = "dict" THEN Dict(CompressDict(value.v, ratio, preserve_keys))
        ELSE IF value.t = "str" /\ StrLen(value) > LongText
             THEN LET max_length == Scaled(StrLen(value), ratio)
                  IN IF StrLen(value) > max_length
                     THEN Truncated(value, max_length) ELSE value
             ELSE value]

\* ContextManager._compress_dict
CompressDict(data, ratio, preserve_keys) ==
  [key \in DOMAIN data |->
     LET value == data[key]
     IN IF key \in preserve_keys THEN value
        ELSE IF value.t = "list" THEN List(CompressList(value.v, ratio, key))
        ELSE IF value.t = "dict" THEN Dict(CompressDict(value.v, ratio, preserve_keys))
        ELSE IF value.t = "str" /\ StrLen(value) > LongText
             THEN LET max_length == Scaled(StrLen(value), ratio)
                  IN IF StrLen(value) > max_length
                     THEN Truncated(value, max_length) ELSE value
             ELSE value]

\* the ratio _compress_context_for_agent applies
ActualRatio(agent_type, current_tokens, target_limit) ==
  LET target_ratio == IF current_tokens > target_limit
                      THEN [num |-> target_limit, den |-> current_tokens]
                      ELSE [num |-> 1, den |-> 1]
      min_ratio == [num |-> CompressionLevels[AgentCompressionStrategies[agent_type].level],
                    den |-> 100]
  IN RatioMax(target_ratio, min_ratio)

\* ContextManager._compress_context_for_agent
CompressContextForAgent(core, extended, agent_type, current_tokens, target_limit) ==
  LET preserve_keys == AgentCompressionStrategies[agent_type].preserve_keys
      actual_ratio == ActualRatio(agent_type, current_tokens, target_limit)
  IN [core |-> CompressDict(core, actual_ratio, preserve_keys),
      extended |-> CompressDict(extended, actual_ratio, preserve_keys)]

\* MAX_CORE_CONTEXT_TOKENS + MAX_EXTENDED_CONTEXT_TOKENS
TotalLimit == 12000

(* ------------------------ align_context_for_agent --------------------- *)

SourceAgentsWithSearcher ==
  {"searcher", "curator", "analyzer", "writer", "citer", "reviewer"}

SourceAgents == {"curator", "analyzer", "writer", "citer", "reviewer"}
ResultAgents == {"writer", "citer", "reviewer"}
ReportAgents == {"citer", "reviewer"}
AnalyzerKeys == {"analysis_summary", "insights_count", "key_facts_count"}
SummaryTail == 3

\* working_data[key] = src[key] for each of keys that src holds and working_data lacks
MergeMissing(working_data, src, keys) ==
  [k \in (DOMAIN working_data) \cup (keys \cap DOMAIN src) |->
     IF k \in DOMAIN working_data THEN working_data[k] ELSE src[k]]

\* one routing block of align_context_for_agent.  b = [stored, val, dicts]: whether
\* the bundle's working_data is still the agent's stored dict object, its value, and
\* the dict heap.  "extended_ctx.get('working_data') or {}" is the stored object
\* when that is non-empty (then the keys are written into the stored dict) and a
\* new dict otherwise; the bundle takes the merged dict only when it is non-empty
RouteWorkingData(b, own_ref, src, keys) ==
  IF src = EmptyDict THEN b
  ELSE LET merged == MergeMissing(b.val, src, keys)
       IN IF b.val # EmptyDict
          THEN [b EXCEPT !.val = merged,
                         !.dicts = IF b.stored THEN [@ EXCEPT ![own_ref] = merged] ELSE @]
          ELSE IF merged # EmptyDict
               THEN [b EXCEPT !.val = merged, !.stored = FALSE]
               ELSE b

\* SUMMARIZATION_THRESHOLD, in tenths
SummarizationThreshold == 8

\* the estimate of a bundle of few short entries
BelowThreshold == 1000

\* estimated_tokens > total_limit * SUMMARIZATION_THRESHOLD
NeedsCompression(estimated_tokens) ==
  estimated_tokens * 10 > TotalLimit * SummarizationThreshold

\* _compress_list on a list of the store: the verified facts are dicts, the
\* elements of the other lists are values that are no dicts
CompressStored(data, ratio, key_name) ==
  LET Json(x) == IF key_name = "verified_facts" THEN Dict(x) ELSE Num(x)
      kept == CompressList([i \in DOMAIN data |-> Json(data[i])], ratio, key_name)
  IN [i \in DOMAIN kept |-> kept[i].v]

\* _compress_dict on the core context's to_dict(): its strings here are short
CompressCore(core, ratio, preserve_keys) ==
  LET Cut(key) == IF key \in preserve_keys THEN core[key]
                  ELSE CompressStored(core[key], ratio, key)
      feedback == core.review_feedback
  IN [core EXCEPT
        !.research_plan = Cut("research_plan"),
        !.verified_facts = Cut("verified_facts"),
        !.key_entities = Cut("key_entities"),
        !.constraints = Cut("constraints"),
        !.review_feedback =
           IF "review_feedback" \in preserve_keys \/ feedback = EmptyDict THEN feedback
           ELSE [feedback EXCEPT
                   !.critical_issues =
                      IF "critical_issues" \in preserve_keys THEN @
                      ELSE CompressStored(@, ratio, "critical_issues"),
                   !.suggestions =
                      IF "suggestions" \in preserve_keys THEN @
                      ELSE CompressStored(@, ratio, "suggestions")]]

\* ContextOrchestrator.align_context_for_agent: the world after the call and the
\* bundle returned, as its reader sees it.  estimated_tokens is what
\* get_context_for_agent estimates for the JSON text of the bundle; above the
\* threshold it hands out compressed copies of the core and extended dicts, and
\* the routing blocks then write into the copies.  The strings of this model's
\* stores are short ones, which the compression leaves as they are.
AlignContextForAgentAt(w, agent_type, estimated_tokens) ==
  LET compress == NeedsCompression(estimated_tokens)
      ratio == ActualRatio(agent_type, estimated_tokens, TotalLimit)
      preserve_keys == AgentCompressionStrategies[agent_type].preserve_keys
      Cut(data, key) == IF compress /\ key \notin preserve_keys
                        THEN CompressStored(data, ratio, key) ELSE data
      verified == GetVerifiedFacts(w.o.kg)
      kg_summary == ExportForContext(w.o.kg)
      top == Take(verified, MaxVerifiedFacts)
      w1 == UpdateCoreContext(w, [verified_facts |->
                                    [i \in DOMAIN top |-> NodeToDict(top[i])],
                                  current_phase |-> agent_type])
      ctx == GetContextForAgent(w1, agent_type)
      w2 == ctx.w
      own == ctx.extended_context
      exts == w2.o.ext
      ls == w2.lists
      curated_sources ==
        IF exts["curator"].present /\ ls[exts["curator"].source_references] # <<>>
        THEN ls[exts["curator"].source_references]
        ELSE IF exts["searcher"].present /\ ls[exts["searcher"].source_references] # <<>>
             THEN ls[exts["searcher"].source_references]
             ELSE <<>>
      source_references ==
        IF /\ agent_type \in SourceAgents
           /\ curated_sources # <<>>
           /\ ls[own.source_references] = <<>>
        THEN curated_sources
        ELSE Cut(ls[own.source_references], "source_references")
      analyzer == exts["analyzer"]
      writer == exts["writer"]
      intermediate_results ==
        IF /\ agent_type \in ResultAgents
           /\ analyzer.present
           /\ ls[analyzer.intermediate_results] # <<>>
           /\ ls[own.intermediate_results] = <<>>
        THEN ls[analyzer.intermediate_results]
        ELSE Cut(ls[own.intermediate_results], "intermediate_results")
      b0 == [stored |-> ~compress, val |-> w2.dicts[own.working_data], dicts |-> w2.dicts]
      b1 == IF agent_type \in ResultAgents /\ analyzer.present
            THEN RouteWorkingData(b0, own.working_data,
                                  b0.dicts[analyzer.working_data], AnalyzerKeys)
            ELSE b0
      b2 == IF agent_type \in ReportAgents /\ writer.present
            THEN RouteWorkingData(b1, own.working_data,
                                  b1.dicts[writer.working_data], {"report"})
            ELSE b1
      drained == GetMessagesForAgent(w2.o.message_queue, agent_type)
      chain == GetSummaryChain(w2.o, ls)
      w3 == [w2 EXCEPT !.dicts = b2.dicts, !.o.message_queue = drained.remaining]
  IN [w |-> w3,
      bundle |->
        [core_context |-> IF compress
                          THEN CompressCore(CoreValue(ctx.core_context, ls), ratio,
                                            preserve_keys)
                          ELSE CoreValue(ctx.core_context, ls),
         extended_context |->
           [agent_type |-> own.agent_type, working_data |-> b2.val,
            intermediate_results |-> intermediate_results,
            source_references |-> source_references,
            notes |-> Cut(ls[own.notes], "notes")],
         context_hash |-> ctx.context_hash,
         knowledge_graph_summary |-> kg_summary,
         pending_messages |-> drained.messages,
         summary_chain |->
           SubSeq(chain, Len(chain) - Min(SummaryTail, Len(chain)) + 1, Len(chain))]]

\* align_context_for_agent on a store of few short entries
AlignContextForAgent(w, agent_type) ==
  AlignContextForAgentAt(w, agent_type, BelowThreshold)

(* ----------------------- sync_context_after_agent --------------------- *)

IsCritical(issue) == DictGet(issue, "severity", "None") = "critical"

\* the review block of sync_context_after_agent: None stands for Python's None
ReviewFeedback(output) ==
  LET review_data == output.review
  IN [passed |-> DictGet(output, "passed", "None"),
      overall_score |-> DictGet(review_data, "overall_score",
                                DictGet(output, "score", "None")),
      critical_issues |-> SelectSeq(DictGet(review_data, "issues", <<>>), IsCritical),
      suggestions |-> DictGet(review_data, "suggestions",
                              DictGet(output, "suggestions", <<>>))]

ReviewAppliesToEmpty(agent_type, output) ==
  agent_type = "reviewer" /\ "review" \in DOMAIN output

\* the guard of the review block: the reviewer's result, with a non-empty review
ReviewApplies(agent_type, output) ==
  agent_type = "reviewer" /\ DictGet(output, "review", EmptyDict) # EmptyDict

\* the knowledge-node loop of sync_context_after_agent: NodeType(...) raises
\* ValueError for a type that is no node type, node_data["content"] raises KeyError
\* when the entry has no content; the nodes added before stay
IngestKnowledgeNodes(w, agent_type, entries) ==
  LET F[i \in 0..Len(entries)] ==
        IF i = 0 THEN [w |-> w, raised |-> FALSE]
        ELSE IF F[i - 1].raised THEN F[i - 1]
        ELSE LET node_data == entries[i]
             IN IF \/ DictGet(node_data, "type", "fact") \notin NodeTypes
                   \/ "content" \notin DOMAIN node_data
                THEN [w |-> F[i - 1].w, raised |-> TRUE]
                ELSE [w |-> AddNode(F[i - 1].w,
                                    DictGet(node_data, "type", "fact"),
                                    node_data.content,
                                    DictGet(node_data, "source_ids", <<>>),
                                    agent_type,
                                    DictGet(node_data, "confidence", DefaultConfidence)),
                      raised |-> FALSE]
  IN F[Len(entries)]

\* ContextOrchestrator.sync_context_after_agent: the world after the call and
\* whether the call ended in a raised exception
SyncContextAfterAgent(w, agent_type, result) ==
  LET w1 == [w EXCEPT !.o.execution_history = Append(@, result)]
      cc == result.context_changes
      w2 == IF cc # EmptyDict /\ "core" \in DOMAIN cc
            THEN UpdateCoreContext(w1, cc.core) ELSE w1
      w3 == IF cc # EmptyDict /\ "extended" \in DOMAIN cc
            THEN UpdateExtendedContext(w2, agent_type, cc.extended) ELSE w2
      w4 == IF ReviewApplies(agent_type, result.output)
            THEN UpdateCoreContext(w3, [review_feedback |-> ReviewFeedback(result.output)])
            ELSE w3
      ing == IF "knowledge_nodes" \in DOMAIN result.output
             THEN IngestKnowledgeNodes(w4, agent_type, result.output.knowledge_nodes)
             ELSE [w |-> w4, raised |-> FALSE]
      w5 == ing.w
  IN IF ing.raised THEN [w |-> w5, raised |-> TRUE]
     ELSE [w |-> IF result.errors # <<>>
                 THEN [w5 EXCEPT !.lists[w5.o.global_errors] = @ \o result.errors]
                 ELSE w5,
           raised |-> FALSE]

(* --------------------- export and restore of the state ---------------- *)

StateKeys ==
  {"task_id", "query", "core_context", "extended_contexts", "knowledge_graph",
   "execution_history", "summary_chain", "global_errors", "timestamp"}

AgentOrder ==
  <<"planner", "searcher", "curator", "analyzer", "writer", "citer", "reviewer">>

ListFieldOrder == <<"intermediate_results", "source_references", "notes">>

\* KnowledgeGraphManager.to_dict
KnowledgeGraphToDict(kg) ==
  [task_id |-> kg.task_id, node_counter |-> kg.node_counter,
   nodes |-> [i \in DOMAIN kg.nodes |->
                [key |-> kg.nodes[i].key, dict |-> NodeToDict(kg.nodes[i])]]]

KnowledgeGraphFromDictFreshCounter(data) ==
  [KnowledgeGraphManager(data.task_id) EXCEPT
     !.nodes = [i \in DOMAIN data.nodes |->
                  NodeEntry(data.nodes[i].key, KnowledgeNodeFromDict(data.nodes[i].dict))]]

\* KnowledgeGraphManager.from_dict: a new manager, whose indices and cache are
\* empty, takes the counter and the nodes of the data
KnowledgeGraphFromDict(data) ==
  [KnowledgeGraphManager(data.task_id) EXCEPT
     !.node_counter = data.node_counter,
     !.nodes = [i \in DOMAIN data.nodes |->
                  NodeEntry(data.nodes[i].key, KnowledgeNodeFromDict(data.nodes[i].dict))]]

\* ContextOrchestrator.get_state_for_persistence: a new dict whose values are the
\* to_dict() dicts, which hold the stored list and dict objects themselves.
\* st.keys are the keys the dict holds, st.val their values
GetStateForPersistence(o) ==
  [keys |-> StateKeys,
   val |-> [task_id |-> o.task_id, query |-> o.query,
            core_context |-> CoreToDict(o.core),
            extended_contexts |-> [a \in AgentTypes |-> ExtendedToDict(o.ext[a])],
            knowledge_graph |-> KnowledgeGraphToDict(o.kg),
            execution_history |->
              [i \in DOMAIN o.execution_history |->
                 [agent_type |-> o.execution_history[i].agent_type,
                  success |-> o.execution_history[i].success,
                  errors |-> o.execution_history[i].errors]],
            summary_chain |-> o.summary_chain,
            global_errors |-> o.global_errors]]

\* json.loads(json.dumps(state)): the same text, every list and dict of it a new
\* object (an object held twice in the state becomes two objects)
JsonRoundTrip(st, ls, ds) ==
  LET v == st.val
      exts == v.extended_contexts
      Present(a) == exts[a].present
      P == SelectSeq(AgentOrder, Present)
      Pos(a) == CHOOSE k \in DOMAIN P : P[k] = a
      FieldPos(f) == CHOOSE k \in DOMAIN ListFieldOrder : ListFieldOrder[k] = f
      extOcc == [k \in 1..(3 * Len(P)) |->
                   ls[exts[P[((k - 1) \div 3) + 1]][ListFieldOrder[((k - 1) % 3) + 1]]]]
      vf == v.core_context.verified_facts
      vfOcc == [i \in DOMAIN vf |-> ls[vf[i].related_node_ids]]
      nodes == v.knowledge_graph.nodes
      nodeOcc == [j \in DOMAIN nodes |-> ls[nodes[j].dict.related_node_ids]]
      b1 == Len(ls)
      b2 == b1 + Len(extOcc)
      b3 == b2 + Len(vfOcc)
      b4 == b3 + Len(nodeOcc)
      ExtRef(a, f) == b1 + 3 * (Pos(a) - 1) + FieldPos(f)
  IN [st |-> [st EXCEPT
                !.val.extended_contexts =
                   [a \in AgentTypes |->
                      IF exts[a].present
                      THEN [exts[a] EXCEPT
                              !.working_data = Len(ds) + Pos(a),
                              !.intermediate_results = ExtRef(a, "intermediate_results"),
                              !.source_references = ExtRef(a, "source_references"),
                              !.notes = ExtRef(a, "notes")]
                      ELSE exts[a]],
                !.val.core_context.verified_facts =
                   [i \in DOMAIN vf |-> [vf[i] EXCEPT !.related_node_ids = b2 + i]],
                !.val.knowledge_graph.nodes =
                   [j \in DOMAIN nodes |-> [nodes[j] EXCEPT !.dict.related_node_ids = b3 + j]],
                !.val.summary_chain = b4 + 1,
                !.val.global_errors = b4 + 2],
      lists |-> ls \o extOcc \o vfOcc \o nodeOcc
                   \o <<ls[v.summary_chain], ls[v.global_errors]>>,
      dicts |-> ds \o [k \in DOMAIN P |-> ds[exts[P[k]].working_data]]]

\* ContextOrchestrator.restore_from_state: state["task_id"], state["query"] and
\* state["core_context"] raise KeyError when missing; the other keys are read with
\* a default.  The new objects keep the list and dict objects of the state
RestoreFromState(ls, ds, st) ==
  IF ~({"task_id", "query", "core_context"} \subseteq st.keys)
  THEN [o |-> NoOrchestrator, lists |-> ls, dicts |-> ds, raised |-> TRUE]
  ELSE LET new == NewOrchestrator(ls, ds, st.val.task_id, st.val.query)
       IN [o |-> [new.o EXCEPT
                    !.core = CoreContextFromDict(st.val.core_context),
                    !.ext = IF "extended_contexts" \in st.keys
                            THEN [a \in AgentTypes |->
                                    IF st.val.extended_contexts[a].present
                                    THEN ExtendedContextFromDict(st.val.extended_contexts[a])
                                    ELSE NoExtended]
                            ELSE @,
                    !.kg = IF "knowledge_graph" \in st.keys
                           THEN KnowledgeGraphFromDict(st.val.knowledge_graph) ELSE @,
                    !.summary_chain = IF "summary_chain" \in st.keys
                                      THEN st.val.summary_chain ELSE @,
                    !.global_errors = IF "global_errors" \in st.keys
                                      THEN st.val.global_errors ELSE @],
           lists |-> new.lists, dicts |-> new.dicts, raised |-> FALSE]

(* ------------------------------ the inputs ---------------------------- *)

\* AgentExecutionResult(agent_type, success, output, errors, context_changes)
Result(agent_type, success, output, errors, context_changes) ==
  [agent_type |-> agent_type, success |-> success, output |-> output,
   errors |-> errors, context_changes |-> context_changes]

GoodNode == [type |-> "fact", content |-> "c1", confidence |-> 9]
NodeWithoutContent == [type |-> "fact", confidence |-> 9]
OverconfidentNode == [type |-> "fact", content |-> "c2", confidence |-> 15]
Review == [overall_score |-> 4, issues |-> <<[severity |-> "critical"]>>]

\* the results workers hand to sync_context_after_agent
SyncResults ==
  {Result("searcher", TRUE, EmptyDict, <<>>, EmptyDict),
   Result("searcher", TRUE, EmptyDict, <<>>,
          [extended |-> [source_references |-> <<"s1">>]]),
   Result("searcher", TRUE, [knowledge_nodes |-> <<GoodNode>>], <<>>,
          [core |-> [key_entities |-> <<"e1">>]]),
   Result("searcher", TRUE, [knowledge_nodes |-> <<NodeWithoutContent>>], <<>>, EmptyDict),
   Result("searcher", TRUE, [knowledge_nodes |-> <<OverconfidentNode>>], <<>>, EmptyDict),
   Result("searcher", FALSE, EmptyDict, <<"err">>, EmptyDict),
   Result("writer", TRUE, EmptyDict, <<>>,
          [extended |-> [working_data |-> [report |-> "r1"]]]),
   Result("reviewer", TRUE, [review |-> Review, passed |-> FALSE], <<>>, EmptyDict),
   Result("reviewer", TRUE, [review |-> EmptyDict, passed |-> FALSE], <<>>, EmptyDict)}

AlignAgents == {"searcher", "reviewer"}

CorePatches == {[key_entities |-> <<"e1">>], [unknown_key |-> "x"]}

ExtendedPatches == {[source_references |-> <<"s2">>]}

\* the messages agents send: from_agent, to_agent, content, priority
Messages ==
  {[from_agent |-> "planner", to_agent |-> "searcher", content |-> "m", priority |-> 1],
   [from_agent |-> "planner", to_agent |-> "searcher", content |-> "m", priority |-> 5],
   [from_agent |-> "planner", to_agent |-> "searcher", content |-> "m", priority |-> 3]}

BroadcastPriority == 3

\* the patches callers give update_node
NodePatches ==
  {[content |-> "c2"],
   [id |-> <<0, 0>>, version |-> 0],
   [verification_status |-> "unverified", confidence_score |-> 15]}

\* a node id no store holds
AbsentNodeId == <<0, 0>>

DroppableKeys ==
  {"core_context", "extended_contexts", "knowledge_graph", "summary_chain",
   "global_errors"}

\* how the export reaches restore_from_state, <<via_json, keys>>: the whole export,
\* as it is or through its JSON text, or the export with one key lost
RestoreInputs ==
  {<<j, StateKeys>> : j \in BOOLEAN} \cup {<<FALSE, StateKeys \ {k}>> : k \in DroppableKeys}

NodeIds(o) == {o.kg.nodes[i].key : i \in DOMAIN o.kg.nodes}

(* ------------------------------ the state ----------------------------- *)

World(i) == [o |-> orch[i], lists |-> lists, dicts |-> dicts]

NoSnapshot ==
  [taken |-> FALSE, inst |-> 0,
   s |-> CreateSnapshot(NoOrchestrator, <<>>, "none", "none"),
   at_creation |-> SnapshotValue(CreateSnapshot(NoOrchestrator, <<>>, "none", "none"),
                                 <<>>, <<>>)]

\* no compression was called, no workflow was started
NoCompression == [stage |-> "none"]
NoRun == [stage |-> "none"]

\* repeat: the call before it was the same call, on the same instance
Call(op, inst, arg, raised) ==
  [op |-> op, inst |-> inst, arg |-> arg, raised |-> raised, n |-> steps + 1,
   repeat |-> (last.op = op /\ last.inst = inst /\ last.arg = arg)]

InitStore ==
  LET new == NewOrchestrator(<<>>, <<>>, 1, "q")
  IN /\ orch = [i \in Inst |-> IF i = 1 THEN new.o ELSE NoOrchestrator]
     /\ lists = new.lists
     /\ dicts = new.dicts
     /\ snap = NoSnapshot
     /\ last = [op |-> "init", inst |-> 1, arg |-> <<>>, raised |-> FALSE, n |-> 0,
                 repeat |-> FALSE]
     /\ steps = 0

Init ==
  /\ InitStore
  /\ comp = NoCompression
  /\ pipe = NoRun

\* a call on instance i that leaves world w
Step(i, w, call) ==
  /\ orch' = [orch EXCEPT ![i] = w.o]
  /\ lists' = w.lists
  /\ dicts' = w.dicts
  /\ last' = call
  /\ steps' = steps + 1
  /\ UNCHANGED <<comp, pipe>>

Live(i) == orch[i].live /\ steps < MaxSteps

(* ------------------------------ the calls ----------------------------- *)

\* await orchestrator.sync_context_after_agent(agent_type, result)
Sync(i, result) ==
  /\ Live(i)
  /\ "knowledge_nodes" \in DOMAIN result.output
        => orch[i].kg.node_counter < MaxNodeCount
  /\ LET r == SyncContextAfterAgent(World(i), result.agent_type, result)
     IN Step(i, r.w, Call("sync", i, result, r.raised))
  /\ UNCHANGED snap

\* await orchestrator.align_context_for_agent(agent_type)
Align(i, agent_type) ==
  /\ Live(i)
  /\ LET r == AlignContextForAgent(World(i), agent_type)
     IN Step(i, r.w, Call("align", i, [agent_type |-> agent_type, bundle |-> r.bundle],
                          FALSE))
  /\ UNCHANGED snap

\* the same call on a store whose bundle is estimated at estimated_tokens
AlignAt(i, agent_type, estimated_tokens) ==
  /\ Live(i)
  /\ LET r == AlignContextForAgentAt(World(i), agent_type, estimated_tokens)
     IN Step(i, r.w, Call("align", i,
                          [agent_type |-> agent_type, bundle |-> r.bundle,
                           estimated_tokens |-> estimated_tokens], FALSE))
  /\ UNCHANGED snap

\* orchestrator.context_manager.update_core_context(updates)
UpdateCore(i, updates) ==
  /\ Live(i)
  /\ Step(i, UpdateCoreContext(World(i), updates), Call("update_core", i, updates, FALSE))
  /\ UNCHANGED snap

\* orchestrator.context_manager.update_extended_context(agent_type, updates)
UpdateExtended(i, agent_type, updates) ==
  /\ Live(i)
  /\ Step(i, UpdateExtendedContext(World(i), agent_type, updates),
          Call("update_extended", i, [agent_type |-> agent_type, updates |-> updates],
               FALSE))
  /\ UNCHANGED snap

\* snapshot = orchestrator.context_manager.create_snapshot(...), kept by the caller
TakeSnapshot(i) ==
  /\ Live(i)
  /\ ~snap.taken
  /\ LET s == CreateSnapshot(orch[i], lists, "post_agent", "searcher")
     IN snap' = [taken |-> TRUE, inst |-> i, s |-> s,
                 at_creation |-> SnapshotValue(s, lists, dicts)]
  /\ last' = Call("create_snapshot", i, <<>>, FALSE)
  /\ steps' = steps + 1
  /\ UNCHANGED <<orch, lists, dicts, comp, pipe>>

\* orchestrator.send_message(message)
Send(i, message) ==
  /\ Live(i)
  /\ Len(orch[i].message_queue) < MaxQueue
  /\ LET msg == AgentMessage(message.from_agent, message.to_agent, message.content,
                             message.priority, steps + 1)
     IN Step(i, [World(i) EXCEPT !.o.message_queue = SendMessage(@, msg)],
             Call("send_message", i, msg, FALSE))
  /\ UNCHANGED snap

\* orchestrator.broadcast_message(from_agent, message_type, content, priority)
Broadcast(i) ==
  /\ Live(i)
  /\ Len(orch[i].message_queue) < MaxQueue
  /\ Step(i, [World(i) EXCEPT !.o.message_queue =
                 BroadcastMessage(@, "planner", "b", BroadcastPriority, steps + 1)],
          Call("broadcast_message", i, <<>>, FALSE))
  /\ UNCHANGED snap

\* orchestrator.knowledge_graph.update_node(node_id, updates)
UpdateNodeCall(i, node_id, updates) ==
  /\ Live(i)
  /\ Step(i, [World(i) EXCEPT !.o.kg = UpdateNode(@, node_id, updates)],
          Call("update_node", i, [node_id |-> node_id, updates |-> updates], FALSE))
  /\ UNCHANGED snap

\* orchestrator.knowledge_graph.verify_node(node_id, verifier)
Verify(i, node_id) ==
  /\ Live(i)
  /\ Step(i, [World(i) EXCEPT !.o.kg = VerifyNode(@, node_id)],
          Call("verify_node", i, node_id, FALSE))
  /\ UNCHANGED snap

\* orchestrator.knowledge_graph.mark_conflicting(node_id, conflicting_node_id)
Mark(i, node_id, conflicting_node_id) ==
  /\ Live(i)
  /\ Step(i, MarkConflicting(World(i), node_id, conflicting_node_id),
          Call("mark_conflicting", i, <<node_id, conflicting_node_id>>, FALSE))
  /\ UNCHANGED snap

\* orchestrator.context_manager.add_to_summary_chain(summary), as
\* generate_context_summary calls it
Summarise(i, summary) ==
  /\ Live(i)
  /\ lists[orch[i].summary_chain] = <<>>
  /\ Step(i, AddToSummaryChain(World(i), summary),
          Call("add_to_summary_chain", i, summary, FALSE))
  /\ UNCHANGED snap

\* ContextOrchestrator.restore_from_state(state) into slot 2, state being what
\* get_state_for_persistence of instance 1 returned, handed over as it is or
\* through its JSON text, whole or with one key lost
Restore(via_json, keys) ==
  /\ Live(1)
  /\ ~orch[2].live
  /\ LET exported == [GetStateForPersistence(orch[1]) EXCEPT !.keys = keys]
         persisted == IF via_json THEN JsonRoundTrip(exported, lists, dicts)
                      ELSE [st |-> exported, lists |-> lists, dicts |-> dicts]
         r == RestoreFromState(persisted.lists, persisted.dicts, persisted.st)
     IN Step(2, r, Call("restore", 2, [via_json |-> via_json, keys |-> keys], r.raised))
  /\ UNCHANGED snap

\* ContextOrchestrator(task_id=2, query=...) into slot 2
Construct ==
  /\ Live(1)
  /\ ~orch[2].live
  /\ Step(2, NewOrchestrator(lists, dicts, 2, "q2"), Call("construct", 2, <<>>, FALSE))
  /\ UNCHANGED snap

Next ==
  \/ \E i \in Inst, r \in SyncResults : Sync(i, r)
  \/ \E i \in Inst, a \in AlignAgents : Align(i, a)
  \/ \E i \in Inst, u \in CorePatches : UpdateCore(i, u)
  \/ \E i \in Inst, u \in ExtendedPatches : UpdateExtended(i, "searcher", u)
  \/ \E i \in Inst : TakeSnapshot(i)
  \/ \E i \in Inst, m \in Messages : Send(i, m)
  \/ \E i \in Inst : \E id \in NodeIds(orch[i]) : Verify(i, id)
  \/ \E i \in Inst : \E a \in NodeIds(orch[i]) \cup {AbsentNodeId}, b \in NodeIds(orch[i]) :
        Mark(i, a, b)
  \/ \E i \in Inst : \E id \in NodeIds(orch[i]), u \in NodePatches : UpdateNodeCall(i, id, u)
  \/ \E i \in Inst : Broadcast(i)
  \/ \E i \in Inst : Summarise(i, "sum")
  \/ \E in \in RestoreInputs : Restore(in[1], in[2])
  \/ Construct

Spec == Init /\ [][Next]_vars

(* ------------------------------ the views ----------------------------- *)

\* what a reader of instance i sees of each part of its store
CoreView(i) == CoreValue(orch[i].core, lists)
ExtendedView(i) == ExtendedContextsValue(orch[i].ext, lists, dicts)
NodesView(i) ==
  [k \in DOMAIN orch[i].kg.nodes |-> NodeDictValue(NodeToDict(orch[i].kg.nodes[k]), lists)]
ErrorsView(i) == lists[orch[i].global_errors]
ExecutionView(i) ==
  [k \in DOMAIN orch[i].execution_history |->
     [agent_type |-> orch[i].execution_history[k].agent_type,
      success |-> orch[i].execution_history[k].success,
      errors |-> orch[i].execution_history[k].errors]]

CoreHash(i) == GetHash(orch[i].core, lists)
VerifiedCount(i) == Len(GetVerifiedFacts(orch[i].kg))
NodeCount(i) == Len(orch[i].kg.nodes)

WholeRestore == last.op = "restore" /\ last.arg.keys = StateKeys

(* ------------------------------ the claims ---------------------------- *)

C2_SyncNeverRaises == last.op = "sync" => ~last.raised

\* C3: update_core_context adds one history entry exactly when the core hash
\* changed, and a patch whose values equal the current ones changes neither the
\* hash nor the history.
C3_UpdateCoreIdempotent ==
  [][last'.op = "update_core"
       => LET i == last'.inst
              u == last'.arg
              h == CoreHash(i)
              h2 == GetHash(orch'[i].core, lists')
          IN /\ Len(orch'[i].history)
                  = Len(orch[i].history) + (IF h2 # h THEN 1 ELSE 0)
             /\ (\A k \in (DOMAIN u) \cap CoreKeys : u[k] = orch[i].core[k])
                  => h2 = h /\ orch'[i].history = orch[i].history]_vars

\* update_core_context was called with the key entities the core already held
\* (set by the sync before it, the one recorded change)
C3_Witness ==
  /\ last.op = "update_core"
  /\ last.arg = [key_entities |-> <<"e1">>]
  /\ last.n = 2
  /\ Len(orch[1].execution_history) = 1
  /\ orch[1].execution_history[1].context_changes # EmptyDict
  /\ orch[1].core.key_entities = <<"e1">>
  /\ Len(orch[1].history) = 1

HistoryChains(h) == \A k \in 2..Len(h) : h[k].old_hash = h[k - 1].new_hash

\* C4 as stated: in every store, a restored one included, the history entries
\* chain and the core hash is the new_hash of the last entry, or the hash of the
\* initial core context when the history is empty.
C4_HistoryRecordsEveryChange ==
  \A i \in Inst :
    orch[i].live =>
      /\ HistoryChains(orch[i].history)
      /\ CoreHash(i) =
           IF orch[i].history = <<>>
           THEN GetHash(CoreContext(orch[i].task_id, orch[i].query), lists)
           ELSE orch[i].history[Len(orch[i].history)].new_hash

\* C5 as stated: a snapshot returned by create_snapshot reads the same for ever.
C5_SnapshotImmutable ==
  snap.taken => SnapshotValue(snap.s, lists, dicts) = snap.at_creation

\* C6 as stated: restore_from_state of the export has the core context, extended
\* contexts, nodes, node counter, both histories and the errors of the exported
\* orchestrator.
C6_RestoreReconstructsStore ==
  WholeRestore =>
    /\ ~last.raised
    /\ CoreView(2) = CoreView(1)
    /\ ExtendedView(2) = ExtendedView(1)
    /\ NodesView(2) = NodesView(1)
    /\ orch[2].kg.node_counter = orch[1].kg.node_counter
    /\ orch[2].history = orch[1].history
    /\ ExecutionView(2) = ExecutionView(1)
    /\ ErrorsView(2) = ErrorsView(1)

\* C7: restore_from_state of the export has as many verified nodes, as many nodes
\* and the same core hash as the exported orchestrator.
C7_RoundTripCounts ==
  WholeRestore =>
    /\ ~last.raised
    /\ orch[2].live
    /\ VerifiedCount(2) = VerifiedCount(1)
    /\ NodeCount(2) = NodeCount(1)
    /\ CoreHash(2) = CoreHash(1)

\* a store with a verified node and a changed core context was exported and restored
C7_Witness ==
  /\ WholeRestore
  /\ VerifiedCount(1) >= 1
  /\ CoreHash(1) # GetHash(CoreContext(1, "q"), lists)

\* C8 as stated: restore_from_state of a state that lacks one of core_context,
\* extended_contexts, knowledge_graph, summary_chain, global_errors raises.
C8_PartialStateFailsLoudly ==
  (last.op = "restore" /\ last.arg.keys # StateKeys) => last.raised

\* C9 as stated: right after export and restore, align_context_for_agent returns
\* the same core context, extended context, knowledge summary and pending
\* messages on the restored orchestrator as on the original, for every worker.
C9_CheckpointResumable ==
  WholeRestore =>
    \A a \in AgentTypes :
      LET b1 == AlignContextForAgent(World(1), a).bundle
          b2 == AlignContextForAgent(World(2), a).bundle
      IN /\ b2.core_context = b1.core_context
         /\ b2.extended_context = b1.extended_context
         /\ b2.knowledge_graph_summary = b1.knowledge_graph_summary
         /\ b2.pending_messages = b1.pending_messages

\* what a reader of instance i sees of its whole store
InstanceView(i) ==
  [core |-> CoreView(i), extended |-> ExtendedView(i), nodes |-> NodesView(i),
   queue |-> orch[i].message_queue, errors |-> ErrorsView(i)]

\* C10 as stated: a call on one instance changes nothing of the core context,
\* extended contexts, nodes, message queue and errors of the other.
C10_InstancesIsolated ==
  [][\A j \in Inst :
       (orch[j].live /\ last'.inst # j)
         => [core |-> CoreValue(orch'[j].core, lists'),
             extended |-> ExtendedContextsValue(orch'[j].ext, lists', dicts'),
             nodes |-> [k \in DOMAIN orch'[j].kg.nodes |->
                          NodeDictValue(NodeToDict(orch'[j].kg.nodes[k]), lists')],
             queue |-> orch'[j].message_queue,
             errors |-> lists'[orch'[j].global_errors]]
            = InstanceView(j)]_vars

(* -------------------------- the message queue ------------------------- *)

InSeq(m, q) == \E k \in DOMAIN q : q[k] = m

\* C11 as stated: a poll by one worker type leaves every queued broadcast message
\* deliverable to every other worker type, so that the first poll of each of them
\* carries it.
C11_BroadcastReachesEveryPoller ==
  [][last'.op = "align"
       => LET i == last'.inst
          IN \A k \in DOMAIN orch[i].message_queue :
               orch[i].message_queue[k].to_agent = "broadcast"
                 => \A b \in AgentTypes \ {last'.arg.agent_type} :
                      InSeq(orch[i].message_queue[k],
                            GetMessagesForAgent(orch'[i].message_queue, b).messages)]_vars

\* priority descending, and the earlier sent first among equal priorities
PriorityOrdered(q) ==
  \A j, k \in DOMAIN q :
    j < k => \/ q[j].priority > q[k].priority
             \/ q[j].priority = q[k].priority /\ q[j].timestamp < q[k].timestamp

\* C12: every message queue is ordered by priority descending, messages of equal
\* priority in the order they were sent, and the messages a poll returns are in
\* that order too.
C12_QueuePriorityOrdered ==
  /\ \A i \in Inst : PriorityOrdered(orch[i].message_queue)
  /\ last.op = "align" => PriorityOrdered(last.arg.bundle.pending_messages)

\* messages of priorities 1, 5, 3 were sent in that order to the searcher, whose
\* poll returned them as 5, 3, 1
C12_Witness ==
  /\ last.op = "align"
  /\ last.arg.agent_type = "searcher"
  /\ LET got == last.arg.bundle.pending_messages
     IN /\ [k \in DOMAIN got |-> got[k].priority] = <<5, 3, 1>>
        /\ [k \in DOMAIN got |-> got[k].timestamp] = <<2, 3, 1>>

\* C13: a poll by worker type r returns exactly the queued messages for r or for
\* broadcast and leaves the others queued in the same relative order; a message for
\* a worker type stays queued over every other step and is returned by that type's
\* first poll, after which the queue holds no message for it.
C13_DrainReturnsExactlyOwn ==
  [][\A i \in Inst :
       LET q == orch[i].message_queue
           q2 == orch'[i].message_queue
           polled == last'.op = "align" /\ last'.inst = i
           For(m, r) == m.to_agent = r \/ m.to_agent = "broadcast"
       IN /\ polled =>
               LET r == last'.arg.agent_type
                   got == last'.arg.bundle.pending_messages
               IN /\ \A k \in DOMAIN got : InSeq(got[k], q) /\ For(got[k], r)
                  /\ \A k \in DOMAIN q : For(q[k], r) <=> InSeq(q[k], got)
                  /\ \A k \in DOMAIN q : ~For(q[k], r) <=> InSeq(q[k], q2)
                  /\ \A k \in DOMAIN q2 : InSeq(q2[k], q) /\ ~For(q2[k], r)
                  /\ Len(got) + Len(q2) = Len(q)
                  /\ \A j, k \in DOMAIN q2 :
                       j < k => \E a, b \in DOMAIN q : a < b /\ q[a] = q2[j] /\ q[b] = q2[k]
          /\ orch[i].live =>
               \A k \in DOMAIN q :
                 (q[k].to_agent # "broadcast"
                    /\ ~(polled /\ last'.arg.agent_type = q[k].to_agent))
                   => InSeq(q[k], q2)]_vars

\* the reviewer polled a queue that held two messages for the searcher and a
\* broadcast message between them: it got the broadcast message, the two stay
C13_Witness ==
  /\ last.op = "align"
  /\ last.arg.agent_type = "reviewer"
  /\ Len(last.arg.bundle.pending_messages) = 1
  /\ last.arg.bundle.pending_messages[1].to_agent = "broadcast"
  /\ LET q == orch[last.inst].message_queue
     IN /\ Len(q) = 2
        /\ q[1].to_agent = "searcher" /\ q[2].to_agent = "searcher"
        /\ q[1].priority = 5 /\ q[2].priority = 1

(* -------------------------- the knowledge store ----------------------- *)

\* C14 as stated: every node whose verification count is 2 or more has status
\* verified.
C14_CountTwoImpliesVerified ==
  \A i \in Inst :
    \A k \in DOMAIN orch[i].kg.nodes :
      orch[i].kg.nodes[k].verification_count >= VerifiedThreshold
        => orch[i].kg.nodes[k].verification_status = "verified"

\* C15 as stated: a node's status changes only from unverified to verified, by
\* verify_node with a count of 2 or more, or to conflicting, by mark_conflicting;
\* and a verified node has a count of 2 or more.
C15_StatusTransitions ==
  [][\A i \in Inst :
       orch[i].live =>
         \A k \in DOMAIN orch[i].kg.nodes :
           LET old == orch[i].kg.nodes[k]
               new == orch'[i].kg.nodes[k]
           IN /\ old.verification_status # new.verification_status
                   => \/ /\ old.verification_status = "unverified"
                         /\ new.verification_status = "verified"
                         /\ last'.op = "verify_node"
                         /\ new.verification_count >= VerifiedThreshold
                      \/ /\ new.verification_status = "conflicting"
                         /\ last'.op = "mark_conflicting"
              /\ new.verification_status = "verified"
                   => new.verification_count >= VerifiedThreshold]_vars

\* C16 as stated: when a node has been verified exactly twice, by two calls of
\* verify_node in a row, its status is verified and its confidence is at least what
\* it was before the two calls (the first leaves it as it is) and at most 1.0.
C16_TwiceVerifiedMonotone ==
  [][(last'.op = "verify_node" /\ last'.repeat)
       => LET i == last'.inst
              k == NodeIndex(orch[i].kg, last'.arg)
              old == orch[i].kg.nodes[k]
              new == orch'[i].kg.nodes[k]
          IN new.verification_count = VerifiedThreshold
               => /\ new.verification_status = "verified"
                  /\ new.confidence_score >= old.confidence_score
                  /\ new.confidence_score <= FullConfidence]_vars

\* C17 as stated: every node's confidence score is within [0, 1].
C17_ConfidenceInRange ==
  \A i \in Inst :
    \A k \in DOMAIN orch[i].kg.nodes :
      /\ orch[i].kg.nodes[k].confidence_score >= 0
      /\ orch[i].kg.nodes[k].confidence_score <= FullConfidence

\* how often id occurs in the list
Occurrences(id, list) == Cardinality({k \in DOMAIN list : list[k] = id})

\* C18: mark_conflicting(A, B) called again right after mark_conflicting(A, B)
\* changes nothing, and B is once in A's related-node list.
C18_MarkConflictingIdempotent ==
  [][(last'.op = "mark_conflicting" /\ last'.repeat)
       => LET i == last'.inst
              k == NodeIndex(orch'[i].kg, last'.arg[1])
          IN /\ orch'[i] = orch[i]
             /\ lists' = lists
             /\ dicts' = dicts
             /\ k # 0 => Occurrences(last'.arg[2],
                                      lists'[orch'[i].kg.nodes[k].related_node_ids]) = 1]_vars

\* mark_conflicting(A, B) was called twice in a row on a store that holds A and B
C18_Witness ==
  /\ last.op = "mark_conflicting"
  /\ last.repeat
  /\ LET kg == orch[last.inst].kg
         k == NodeIndex(kg, last.arg[1])
     IN /\ k # 0
        /\ NodeIndex(kg, last.arg[2]) # 0
        /\ last.arg[2] # last.arg[1]
        /\ kg.nodes[k].verification_status = "conflicting"
        /\ lists[kg.nodes[k].related_node_ids] = <<last.arg[2]>>

\* C19: mark_conflicting(A, B) leaves every node but A as it was, its related-node
\* list included, and the whole store when it holds no A; at most one node's status
\* becomes conflicting.
C19_MarkConflictingTouchesOnlyA ==
  [][last'.op = "mark_conflicting"
       => LET i == last'.inst
              nodes == orch[i].kg.nodes
              nodes2 == orch'[i].kg.nodes
              a == NodeIndex(orch[i].kg, last'.arg[1])
          IN /\ DOMAIN nodes2 = DOMAIN nodes
             /\ \A k \in DOMAIN nodes :
                  k # a => /\ nodes2[k] = nodes[k]
                           /\ lists'[nodes2[k].related_node_ids]
                                = lists[nodes[k].related_node_ids]
             /\ a # 0 => /\ orch'[i] = [orch[i] EXCEPT
                                          !.kg.nodes[a].verification_status = "conflicting"]
                          /\ DOMAIN lists' = DOMAIN lists
                          /\ \A l \in DOMAIN lists :
                               l # nodes[a].related_node_ids => lists'[l] = lists[l]
                          /\ dicts' = dicts
             /\ a = 0 => orch'[i] = orch[i] /\ lists' = lists /\ dicts' = dicts
             /\ Cardinality({k \in DOMAIN nodes :
                               /\ nodes[k].verification_status # "conflicting"
                               /\ nodes2[k].verification_status = "conflicting"}) <= 1]_vars

\* mark_conflicting(A, B) was called on a store that holds A and another node B:
\* A is conflicting and lists B, B is not conflicting and lists nothing
C19_Witness ==
  /\ last.op = "mark_conflicting"
  /\ LET kg == orch[last.inst].kg
         a == NodeIndex(kg, last.arg[1])
         b == NodeIndex(kg, last.arg[2])
     IN /\ a # 0 /\ b # 0 /\ a # b
        /\ kg.nodes[a].verification_status = "conflicting"
        /\ lists[kg.nodes[a].related_node_ids] = <<last.arg[2]>>
        /\ kg.nodes[b].verification_status = "unverified"
        /\ lists[kg.nodes[b].related_node_ids] = <<>>

\* C20 as stated: update_node leaves the node under its id, reporting that id, and
\* adds one to its version; no step lowers a node's version.
C20_UpdateKeepsIdBumpsVersion ==
  [][\A i \in Inst :
       orch[i].live =>
         \A k \in DOMAIN orch[i].kg.nodes :
           LET old == orch[i].kg.nodes[k]
               new == orch'[i].kg.nodes[k]
           IN /\ new.version >= old.version
              /\ (last'.op = "update_node" /\ last'.inst = i
                    /\ last'.arg.node_id = old.key)
                   => /\ new.key = old.key
                      /\ new.id = old.id
                      /\ new.version = old.version + 1]_vars

\* C21: every add_node (made by sync_context_after_agent for an entry of
\* knowledge_nodes) stores the node under an identifier of the task whose number is
\* above that of every key the store holds, so that the store grows by one node
\* for each identifier issued and keeps every node it held; in every store the keys
\* are distinct and none is above the node counter.  A restored store is a store.
C21_AddNodeIssuesFreshId ==
  [][\A i \in Inst :
       LET nodes == orch[i].kg.nodes
           nodes2 == orch'[i].kg.nodes
       IN /\ \A j, k \in DOMAIN nodes2 : j # k => nodes2[j].key # nodes2[k].key
          /\ \A k \in DOMAIN nodes2 : /\ nodes2[k].key[1] = orch'[i].kg.task_id
                                        /\ nodes2[k].key[2] <= orch'[i].kg.node_counter
          /\ (orch[i].live /\ last'.op = "sync" /\ last'.inst = i)
               => /\ Len(nodes2) - Len(nodes)
                       = orch'[i].kg.node_counter - orch[i].kg.node_counter
                  /\ \A k \in DOMAIN nodes : nodes2[k] = nodes[k]
                  /\ \A k \in (DOMAIN nodes2) \ (DOMAIN nodes) :
                       \A j \in 1..(k - 1) : nodes2[k].key[2] > nodes2[j].key[2]]_vars

\* a store that held a node was exported and restored, and a worker result with a
\* knowledge node was then synced into the restored store, which holds both nodes
C21_Witness ==
  /\ last.op = "sync"
  /\ last.inst = 2
  /\ "knowledge_nodes" \in DOMAIN last.arg.output
  /\ ~last.raised
  /\ Len(orch[2].kg.nodes) = 2
  /\ orch[2].kg.nodes[1].key = <<1, 1>>
  /\ orch[2].kg.nodes[2].key = <<1, 2>>

(* ---------------------- the inputs of the compression ----------------- *)

\* the token estimates get_context_for_agent may hand over: all above 0.8 of the
\* limit, one of them not above the limit
TokenEstimates == {10000, 16000, 24000, 48000}

Fact(id, confidence) == Dict([id |-> Num(id), confidence |-> Num(confidence)])
Source(id, relevance_score) ==
  Dict([id |-> Num(id), relevance_score |-> Num(relevance_score)])
Item(id) == Dict([id |-> Num(id)])

\* a list element that is a dict with fields named like fields of the bundle
Entry(id) ==
  Dict([id |-> Num(id), query |-> Str(5), key_entities |-> List(<<>>),
        insights |-> List(<<>>), report |-> Str(5)])

\* a bundle as get_context_for_agent builds it: the core context's dict and the
\* worker's extended context's dict
TypicalBundle ==
  [core |-> [query |-> Str(40),
             research_plan |-> List(<<Item(1), Item(2), Item(3)>>),
             verified_facts |-> List(<<Fact(1, 5), Fact(2, 9), Fact(3, 7)>>),
             key_entities |-> List(<<Num(1), Num(2)>>),
             review_feedback |-> Dict([suggestions |-> List(<<Num(1), Num(2), Num(3)>>)])],
   extended |-> [working_data |-> Dict([report |-> Str(200),
                                        analysis_summary |-> Str(150),
                                        draft |-> Str(120)]),
                 intermediate_results |->
                    List(<<Item(1), Item(2), Item(3), Item(4), Item(5)>>),
                 source_references |-> List(<<Source(1, 3), Source(2, 8), Item(3)>>),
                 notes |-> List(<<>>)]]

\* a bundle whose notes are dicts with fields named like fields of the bundle
EntriesBundle ==
  [core |-> [query |-> Str(40), research_plan |-> List(<<>>),
             verified_facts |-> List(<<>>), key_entities |-> List(<<>>),
             review_feedback |-> Dict(EmptyDict)],
   extended |-> [working_data |-> Dict(EmptyDict),
                 intermediate_results |-> List(<<>>),
                 source_references |-> List(<<>>),
                 notes |-> List(<<Entry(1), Entry(2), Entry(3)>>)]]

\* a bundle of long strings and of lists of one and of two elements
LongTextBundle ==
  [core |-> [query |-> Str(101), research_plan |-> List(<<Item(1)>>),
             verified_facts |-> List(<<Fact(1, 5), Fact(2, 5)>>),
             key_entities |-> List(<<>>),
             review_feedback |-> Dict(EmptyDict)],
   extended |-> [working_data |-> Dict([report |-> Str(101), draft |-> Str(100)]),
                 intermediate_results |-> List(<<Item(1), Item(2)>>),
                 source_references |-> List(<<>>),
                 notes |-> List(<<Item(1)>>)]]

CompressionBundles == {TypicalBundle, EntriesBundle, LongTextBundle}

(* ------------------------ the compression calls ----------------------- *)

storeVars == <<orch, lists, dicts, snap, last, steps>>

\* a caller is about to compress a bundle for a worker
InitCompress ==
  /\ InitStore
  /\ pipe = NoRun
  /\ \E a \in AgentTypes, b \in CompressionBundles, n \in TokenEstimates :
       comp = [stage |-> "input", agent_type |-> a, core |-> b.core,
               extended |-> b.extended, current_tokens |-> n,
               target_limit |-> TotalLimit]

\* compressed = self._compress_context_for_agent(core, extended, agent_type,
\* current_tokens, target_limit)
Compress ==
  /\ comp.stage = "input"
  /\ comp' = [stage |-> "once", agent_type |-> comp.agent_type, core |-> comp.core,
              extended |-> comp.extended, current_tokens |-> comp.current_tokens,
              target_limit |-> comp.target_limit,
              compressed |-> CompressContextForAgent(comp.core, comp.extended,
                                comp.agent_type, comp.current_tokens, comp.target_limit)]
  /\ UNCHANGED <<storeVars, pipe>>

\* the same compression, with the same ratio, of the bundle it returned
Recompress ==
  /\ comp.stage = "once"
  /\ comp' = [stage |-> "twice", agent_type |-> comp.agent_type, core |-> comp.core,
              extended |-> comp.extended, current_tokens |-> comp.current_tokens,
              target_limit |-> comp.target_limit, compressed |-> comp.compressed,
              again |-> CompressContextForAgent(comp.compressed.core,
                           comp.compressed.extended, comp.agent_type,
                           comp.current_tokens, comp.target_limit)]
  /\ UNCHANGED <<storeVars, pipe>>

NextCompress == Compress \/ Recompress

SpecCompress == InitCompress /\ [][NextCompress]_vars

(***************************************************************************)
(* The workflow drivers: ResearchWorkflow.run, a loop over the agents, and *)
(* LangGraphWorkflow, a graph of one node per agent.  Both build one       *)
(* orchestrator for the task and, for each agent in turn, await            *)
(* align_context_for_agent, the agent's execute and sync_context_after_    *)
(* agent.  The run's position is in pipe; trace lists the awaited calls.   *)
(***************************************************************************)

\* AGENT_PHASES, agent_sequence: the agents in the order of the run
AgentPhases ==
  <<"planner", "searcher", "curator", "analyzer", "writer", "citer", "reviewer">>

\* rewrite_stages
RewriteStages == <<"writer", "citer", "reviewer">>

\* the agents whose failure the drivers mark as the failure of the run
CriticalAgents == {"planner", "searcher"}

\* max_rewrites, max_retries
MaxRewrites == 3

EntryPoint == "planner"

GraphEdgesSkipWriter ==
  [planner |-> "searcher", searcher |-> "curator", curator |-> "analyzer",
   analyzer |-> "citer", writer |-> "citer", citer |-> "reviewer"]

\* the add_edge calls of _build_workflow_graph
GraphEdges ==
  [planner |-> "searcher", searcher |-> "curator", curator |-> "analyzer",
   analyzer |-> "writer", writer |-> "citer", citer |-> "reviewer"]

NoResult == [agent_type |-> "none"]

\* no bundle is held
NoContext == <<>>

\* the results an agent's execute may return: a success, a failure with an error,
\* for the searcher a success whose knowledge node has no content, for the reviewer
\* a review that rejects and a review that passes
PipelineResults(agent) ==
  {Result(agent, TRUE, EmptyDict, <<>>, EmptyDict),
   Result(agent, FALSE, EmptyDict, <<"err">>, EmptyDict)}
  \cup (IF agent = "searcher"
        THEN {Result(agent, TRUE, [knowledge_nodes |-> <<NodeWithoutContent>>], <<>>,
                     EmptyDict)}
        ELSE {})
  \cup (IF agent = "reviewer"
        THEN {Result(agent, TRUE, [review |-> Review, passed |-> FALSE], <<>>, EmptyDict),
              Result(agent, TRUE, [review |-> Review, passed |-> TRUE], <<>>, EmptyDict)}
        ELSE {})

\* a failure check that does not look at the errors
FailedWithoutErrors(result) == ~result.success

\* not result.success and result.errors
Failed(result) == ~result.success /\ result.errors # <<>>

\* the end of ResearchWorkflow.run after the loops: completed unless failed
Completed(p) ==
  [p EXCEPT !.status = IF @ # "failed" THEN "completed" ELSE @, !.stage = "returned"]

\* the head of the while loop of ResearchWorkflow.run: another rewrite round, or out
RewriteOrComplete(p, w) ==
  LET review_feedback == w.o.core.review_feedback
  IN IF /\ p.rewrite_count < MaxRewrites
        /\ review_feedback # EmptyDict
        /\ ~review_feedback.passed
     THEN [p EXCEPT !.phase = "rewrite", !.idx = 1, !.agent = RewriteStages[1],
                    !.step = "align"]
     ELSE Completed(p)

\* ResearchWorkflow.run after sync_context_after_agent returned
LoopAfterSync(p, result, w) ==
  IF p.phase = "main"
  THEN IF Failed(result) /\ p.agent \in CriticalAgents
       THEN [p EXCEPT !.errors = @ \o result.errors, !.status = "failed",
                      !.stage = "returned"]
       ELSE IF p.idx < Len(AgentPhases)
            THEN [p EXCEPT !.idx = p.idx + 1, !.agent = AgentPhases[p.idx + 1],
                           !.step = "align"]
            ELSE RewriteOrComplete(p, w)
  ELSE IF p.idx < Len(RewriteStages)
       THEN [p EXCEPT !.idx = p.idx + 1, !.agent = RewriteStages[p.idx + 1],
                      !.step = "align"]
       ELSE LET review_feedback == w.o.core.review_feedback
            IN IF review_feedback # EmptyDict /\ review_feedback.passed
               THEN Completed(p)
               ELSE RewriteOrComplete([p EXCEPT !.rewrite_count = @ + 1], w)

\* LangGraphWorkflow._review_decision; rewrite_count is the state's retry_count
ReviewDecision(p) ==
  LET reviewer_result == p.reviewer_result
  IN IF reviewer_result = NoResult \/ ~reviewer_result.success
     THEN [p EXCEPT !.stage = "returned"]
     ELSE IF DictGet(reviewer_result.output, "passed", FALSE)
          THEN [p EXCEPT !.status = "completed", !.stage = "returned"]
          ELSE IF p.rewrite_count < MaxRewrites
               THEN [p EXCEPT !.rewrite_count = @ + 1, !.agent = "writer",
                              !.step = "align"]
               ELSE [p EXCEPT !.status = "failed", !.stage = "returned"]

\* the edge that leaves the node of p.agent
GraphRoute(p) ==
  IF p.agent = "reviewer" THEN ReviewDecision(p)
  ELSE [p EXCEPT !.agent = GraphEdges[p.agent], !.step = "align"]

\* the node function of _create_agent_node after sync_context_after_agent returned
GraphAfterSync(p, result) ==
  LET p1 == IF p.agent = "reviewer" THEN [p EXCEPT !.reviewer_result = result] ELSE p
      p2 == IF Failed(result)
            THEN [p1 EXCEPT !.errors = @ \o result.errors,
                            !.status = IF p.agent \in CriticalAgents THEN "failed" ELSE @]
            ELSE p1
  IN GraphRoute(p2)

\* sync_context_after_agent raised: run's except block ends the run as failed, the
\* node's except block marks the state failed and returns it to the graph
AfterRaise(p) ==
  LET p1 == [p EXCEPT !.errors = Append(@, "exception"), !.status = "failed",
                      !.raised = TRUE]
  IN IF p.driver = "loop" THEN [p1 EXCEPT !.stage = "returned"] ELSE GraphRoute(p1)

Drivers == {"loop", "graph"}

(* --------------------------- the steps of a run ----------------------- *)

PutWorld(w) ==
  /\ orch' = [orch EXCEPT ![1] = w.o]
  /\ lists' = w.lists
  /\ dicts' = w.dicts

\* workflow.run(task_id, query): the orchestrator is new, the first agent is next
StartRun(driver) ==
  /\ pipe.stage = "none"
  /\ pipe' = [stage |-> "run", driver |-> driver, phase |-> "main", idx |-> 1,
              agent |-> EntryPoint, step |-> "align", context |-> NoContext,
              result |-> NoResult,
              status |-> "running", errors |-> <<>>, rewrite_count |-> 0,
              reviewer_result |-> NoResult, raised |-> FALSE, trace |-> <<>>]
  /\ UNCHANGED <<storeVars, comp>>

\* context = await orchestrator.align_context_for_agent(agent_name)
AlignStep ==
  /\ pipe.stage = "run"
  /\ pipe.step = "align"
  /\ LET r == AlignContextForAgent(World(1), pipe.agent)
     IN /\ PutWorld(r.w)
        /\ pipe' = [pipe EXCEPT !.step = "execute", !.context = r.bundle,
                                !.trace = Append(@, <<"align", pipe.agent>>)]
  /\ UNCHANGED <<snap, last, steps, comp>>

\* result = await agent.execute(context)
ExecuteStep(result) ==
  /\ pipe.stage = "run"
  /\ pipe.step = "execute"
  /\ result.agent_type = pipe.agent
  /\ pipe' = [pipe EXCEPT !.step = "sync", !.context = NoContext, !.result = result,
                          !.trace = Append(@, <<"execute", pipe.agent>>)]
  /\ UNCHANGED <<storeVars, comp>>

\* await orchestrator.sync_context_after_agent(agent_name, result), and the driver's
\* code up to its next await or its return
SyncStep ==
  /\ pipe.stage = "run"
  /\ pipe.step = "sync"
  /\ LET r == SyncContextAfterAgent(World(1), pipe.agent, pipe.result)
         p == [pipe EXCEPT !.result = NoResult,
                           !.trace = Append(@, <<"sync", pipe.agent>>)]
     IN /\ PutWorld(r.w)
        /\ pipe' = IF r.raised THEN AfterRaise(p)
                   ELSE IF p.driver = "loop" THEN LoopAfterSync(p, pipe.result, r.w)
                        ELSE GraphAfterSync(p, pipe.result)
  /\ UNCHANGED <<snap, last, steps, comp>>

NextPipeline ==
  \/ \E driver \in Drivers : StartRun(driver)
  \/ AlignStep
  \/ \E agent \in AgentTypes : \E result \in PipelineResults(agent) : ExecuteStep(result)
  \/ SyncStep

SpecPipeline == Init /\ [][NextPipeline]_vars

(***************************************************************************)
(* Stores of many facts: a task whose knowledge graph holds up to twenty-  *)
(* two fact nodes, verified twice each or every second one, and whose      *)
(* bundles are estimated below and above the compression threshold.        *)
(***************************************************************************)

FactCounts == {1, 20, 21, 22}
FactPatterns == {"all", "odd"}
FactAgents == {"searcher", "writer"}
AlignEstimates == {BelowThreshold, 10000, 16000}

RECURSIVE StoreWithFacts(_, _)
\* the store after n add_node calls, each followed by two verify_node calls where
\* the pattern has the node verified
StoreWithFacts(n, pattern) ==
  IF n = 0 THEN NewOrchestrator(<<>>, <<>>, 1, "q")
  ELSE LET w == AddNode(StoreWithFacts(n - 1, pattern), "fact", "c1", <<>>, "searcher",
                        DefaultConfidence)
           id == <<1, n>>
       IN IF pattern = "all" \/ n % 2 = 1
          THEN [w EXCEPT !.o.kg = VerifyNode(VerifyNode(@, id), id)]
          ELSE w

InitFacts ==
  /\ \E n \in FactCounts, pattern \in FactPatterns :
       LET w == StoreWithFacts(n, pattern)
       IN /\ orch = [i \in Inst |-> IF i = 1 THEN w.o ELSE NoOrchestrator]
          /\ lists = w.lists
          /\ dicts = w.dicts
  /\ snap = NoSnapshot
  /\ last = [op |-> "init", inst |-> 1, arg |-> <<>>, raised |-> FALSE, n |-> 0,
             repeat |-> FALSE]
  /\ steps = 0
  /\ comp = NoCompression
  /\ pipe = NoRun

NextFacts ==
  \/ \E a \in FactAgents, n \in AlignEstimates : AlignAt(1, a, n)
  \/ \E b \in {<<1, 2>>} \cap NodeIds(orch[1]) : Mark(1, <<1, 1>>, b)

SpecFacts == InitFacts /\ [][NextFacts]_vars

(***************************************************************************)
(* Routing: a task whose workers store sources and reports through their   *)
(* results, and whose workers are aligned in between.                      *)
(***************************************************************************)

\* the results of workers that store sources or a report in their extended
\* context: the searcher and the curator their sources, the reviewer sources of
\* its own or the round of its review, the writer its draft, the citer the report
\* with the citations
RoutingResults ==
  {Result("searcher", TRUE, EmptyDict, <<>>,
          [extended |-> [source_references |-> <<"s1", "s2">>]]),
   Result("curator", TRUE, EmptyDict, <<>>,
          [extended |-> [source_references |-> <<"s1">>]]),
   Result("reviewer", TRUE, EmptyDict, <<>>,
          [extended |-> [source_references |-> <<"s3", "s4", "s5">>]]),
   Result("reviewer", TRUE, EmptyDict, <<>>,
          [extended |-> [working_data |-> [review_round |-> 1]]]),
   Result("writer", TRUE, EmptyDict, <<>>,
          [extended |-> [working_data |-> [report |-> "r1"]]]),
   Result("citer", TRUE, EmptyDict, <<>>,
          [extended |-> [working_data |-> [report |-> "r1 cited",
                                           citations |-> <<"s1">>]]])}

RoutingAgents == {"planner", "searcher", "curator", "writer", "citer", "reviewer"}
RoutingEstimates == {BelowThreshold, 16000}

NextRouting ==
  \/ \E r \in RoutingResults : Sync(1, r)
  \/ \E a \in RoutingAgents, n \in RoutingEstimates : AlignAt(1, a, n)

SpecRouting == Init /\ [][NextRouting]_vars

(* ---------------------- the claims on compression --------------------- *)

RECURSIVE PreservedInDicts(_, _, _)
\* every field of the dict named in the preserve set, and of the dicts in it, is in
\* the compressed dict with the value it had
PreservedInDicts(data, compressed, preserve_keys) ==
  \A key \in DOMAIN data :
    /\ key \in DOMAIN compressed
    /\ key \in preserve_keys => compressed[key] = data[key]
    /\ (key \notin preserve_keys /\ data[key].t = "dict")
         => /\ compressed[key].t = "dict"
            /\ PreservedInDicts(data[key].v, compressed[key].v, preserve_keys)

RECURSIVE PreservedEverywhere(_, _, _)
\* the same, and every dict that is an element of a list and has such a field is
\* still an element of the compressed list
PreservedEverywhere(data, compressed, preserve_keys) ==
  \A key \in DOMAIN data :
    /\ key \in DOMAIN compressed
    /\ key \in preserve_keys => compressed[key] = data[key]
    /\ (key \notin preserve_keys /\ data[key].t = "dict")
         => /\ compressed[key].t = "dict"
            /\ PreservedEverywhere(data[key].v, compressed[key].v, preserve_keys)
    /\ (key \notin preserve_keys /\ data[key].t = "list")
         => \A j \in DOMAIN data[key].v :
              LET e == data[key].v[j]
              IN (e.t = "dict" /\ (DOMAIN e.v) \cap preserve_keys # {})
                   => \E m \in DOMAIN compressed[key].v : compressed[key].v[m] = e

Compressed == comp.stage \in {"once", "twice"}
PreserveKeys == AgentCompressionStrategies[comp.agent_type].preserve_keys

\* C22 as stated: every field named in the worker type's preserve set has in the
\* compressed bundle the value it has in the input bundle, wherever it occurs,
\* in the elements of lists too.
C22_PreservedFieldsEverywhere ==
  Compressed =>
    /\ PreservedEverywhere(comp.core, comp.compressed.core, PreserveKeys)
    /\ PreservedEverywhere(comp.extended, comp.compressed.extended, PreserveKeys)

\* C22 amended: every field named in the worker type's preserve set that is a
\* field of the core dict, of the extended dict or of a dict nested in them
\* through dicts has in the compressed bundle the value it has in the input bundle.
C22_PreservedFieldsOfDicts ==
  Compressed =>
    /\ PreservedInDicts(comp.core, comp.compressed.core, PreserveKeys)
    /\ PreservedInDicts(comp.extended, comp.compressed.extended, PreserveKeys)

\* the reviewer's bundle was compressed at ratio 0.9: the report in working_data is
\* whole while the draft beside it and the lists were cut
C22_Witness ==
  /\ comp.stage = "once"
  /\ comp.agent_type = "reviewer"
  /\ comp.current_tokens = 24000
  /\ comp.extended = TypicalBundle.extended
  /\ comp.compressed.extended.working_data.v.report = Str(200)
  /\ StrLen(comp.compressed.extended.working_data.v.draft) < 120
  /\ Len(comp.compressed.extended.intermediate_results.v) = 4
  /\ Len(comp.compressed.core.verified_facts.v) = 2

MinRatio == CompressionLevels[AgentCompressionStrategies[comp.agent_type].level]

RECURSIVE RetainedAboveFloor(_, _, _, _)
\* every list and every long string of the dict and of the dicts in it, the
\* preserved fields aside, keeps at least min_ratio hundredths of its elements, of
\* its length (the ellipsis counted in)
RetainedAboveFloor(data, compressed, preserve_keys, min_ratio) ==
  \A key \in (DOMAIN data) \ preserve_keys :
    /\ data[key].t = "list"
         => 100 * Len(compressed[key].v) >= min_ratio * Len(data[key].v)
    /\ data[key].t = "str"
         => 100 * StrLen(compressed[key]) >= min_ratio * StrLen(data[key])
    /\ data[key].t = "dict"
         => RetainedAboveFloor(data[key].v, compressed[key].v, preserve_keys, min_ratio)

\* C23 as stated: the fraction retained of each list and of each string the
\* compression cuts is never below the minimum ratio of the worker type's level,
\* whatever the token estimate and the target are.
C23_RetainedNeverBelowFloor ==
  comp.stage = "once" =>
    /\ RetainedAboveFloor(comp.core, comp.compressed.core, PreserveKeys, MinRatio)
    /\ RetainedAboveFloor(comp.extended, comp.compressed.extended, PreserveKeys, MinRatio)

\* C24 as stated: compressing the output of the compression again, for the same
\* worker type with the same ratio, returns it unchanged.
C24_CompressionIdempotent ==
  comp.stage = "twice" => comp.again = comp.compressed

(* ------------------------ the claims on the run ----------------------- *)

Kinds == <<"align", "execute", "sync">>

\* the agent of the j-th turn of a run: the seven of the order, then the three of
\* the rewrite round, again and again
RunOrder(j) ==
  IF j <= Len(AgentPhases) THEN AgentPhases[j]
  ELSE RewriteStages[((j - Len(AgentPhases) - 1) % Len(RewriteStages)) + 1]

\* the longest run: the order once and MaxRewrites rewrite rounds
LongestRun == Len(Kinds) * (Len(AgentPhases) + MaxRewrites * Len(RewriteStages))

C26_BoundedRewritesFinalStatus ==
  pipe.stage # "none" =>
    /\ Len(pipe.trace) <= LongestRun
    /\ pipe.rewrite_count <= MaxRewrites
    /\ pipe.stage = "returned" => pipe.status \in {"completed", "failed"}

\* C27 as stated: the errors of failed results are accumulated (each failure here
\* carries one); once the planner's or the searcher's result is a failure nothing
\* is awaited after its sync and the run returns failed; a run without such a
\* failure, and without an exception, returns after all seven agents ran.
C27_OnlyCriticalFailureHalts ==
  pipe.stage # "none" =>
    LET history == orch[1].execution_history
        failures == {k \in DOMAIN history : Failed(history[k])}
        critical == {k \in failures : history[k].agent_type \in CriticalAgents}
    IN /\ ~pipe.raised => Len(lists[orch[1].global_errors]) = Cardinality(failures)
       /\ \A k \in critical :
            /\ Len(pipe.trace) = Len(Kinds) * k
            /\ pipe.stage = "returned"
            /\ pipe.status = "failed"
       /\ (pipe.stage = "returned" /\ critical = {} /\ ~pipe.raised)
            => Len(pipe.trace) >= Len(Kinds) * Len(AgentPhases)

(* ------------------- the claims on align_context_for_agent ------------ *)

AlignReturned == last.op = "align" /\ ~last.raised

\* the core context after the call: the phase is the agent's, the verified facts
\* are at most MaxVerifiedFacts, as many as the store has verified nodes up to
\* that, and each is the record of a node the store holds as verified
CoreHoldsVerifiedFacts(i, agent_type) ==
  LET core == CoreView(i)
      nodes == orch[i].kg.nodes
      verified == {n \in DOMAIN nodes : IsVerified(nodes[n])}
  IN /\ core.current_phase = agent_type
     /\ Len(core.verified_facts) = Min(MaxVerifiedFacts, Cardinality(verified))
     /\ \A k \in DOMAIN core.verified_facts :
          \E n \in verified :
            core.verified_facts[k] = NodeDictValue(NodeToDict(nodes[n]), lists)

OwnSources(i, agent_type) ==
  IF orch[i].ext[agent_type].present
  THEN lists[orch[i].ext[agent_type].source_references] ELSE <<>>

\* the most curated list the store has: the curator's, else the searcher's
MostCurated(i) ==
  IF OwnSources(i, "curator") # <<>> THEN OwnSources(i, "curator")
  ELSE OwnSources(i, "searcher")

\* C29: after align_context_for_agent, the bundle of curator, analyzer, writer,
\* citer or reviewer whose own context stores no sources shows the curator's
\* stored list when that is non-empty and the searcher's otherwise; a bundle
\* whose own context stores sources shows entries of that list only (the list
\* itself below the compression threshold); the bundles of planner and searcher
\* show no list but their own.
C29_SourcesRouted ==
  AlignReturned =>
    LET i == last.inst
        agent_type == last.arg.agent_type
        own == OwnSources(i, agent_type)
        shown == last.arg.bundle.extended_context.source_references
        routed == {"curator", "analyzer", "writer", "citer", "reviewer"}
    IN /\ (agent_type \in routed /\ own = <<>>) => shown = MostCurated(i)
       /\ own # <<>> =>
            /\ shown # <<>>
            /\ \A k \in DOMAIN shown : \E m \in DOMAIN own : own[m] = shown[k]
            /\ ~NeedsCompression(last.arg.estimated_tokens) => shown = own
       /\ (agent_type \notin routed /\ own = <<>>) => shown = <<>>

\* the reviewer, which stores no sources, was aligned after the searcher and the
\* curator stored theirs: its bundle shows the curator's list
C29_Witness ==
  /\ AlignReturned
  /\ last.arg.agent_type = "reviewer"
  /\ OwnSources(1, "reviewer") = <<>>
  /\ OwnSources(1, "searcher") = <<"s1", "s2">>
  /\ OwnSources(1, "curator") = <<"s1">>
  /\ last.arg.bundle.extended_context.source_references = <<"s1">>

\* the working_data an agent's extended context stores
OwnWorkingData(i, agent_type) ==
  IF orch[i].ext[agent_type].present
  THEN dicts[orch[i].ext[agent_type].working_data] ELSE EmptyDict

HasReport(result) ==
  /\ result.context_changes # EmptyDict
  /\ "extended" \in DOMAIN result.context_changes
  /\ "working_data" \in DOMAIN result.context_changes.extended
  /\ "report" \in DOMAIN result.context_changes.extended.working_data

Place(agent_type) == CHOOSE k \in DOMAIN AgentPhases : AgentPhases[k] = agent_type

\* the report of the latest result, among those of the workers that come before
\* the agent in the order of the run, that stored a report; None when there is none
MostRecentReport(history, agent_type) ==
  LET with == {k \in DOMAIN history :
                 /\ HasReport(history[k])
                 /\ Place(history[k].agent_type) < Place(agent_type)}
  IN IF with = {} THEN "None"
     ELSE LET latest == CHOOSE k \in with : \A m \in with : m <= k
          IN history[latest].context_changes.extended.working_data.report

\* C30 as stated: when citer or reviewer is aligned and its own context stores no
\* report, the report in its bundle is the most recent report an earlier worker
\* of the run produced; when it stores a report the bundle shows that one; the
\* bundle of no other worker receives a report.
C30_ReportRouted ==
  [][last'.op = "align" =>
       LET agent_type == last'.arg.agent_type
           own == OwnWorkingData(1, agent_type)
           shown == last'.arg.bundle.extended_context.working_data
           recent == MostRecentReport(orch[1].execution_history, agent_type)
           routed == {"citer", "reviewer"}
       IN /\ (agent_type \in routed /\ "report" \notin DOMAIN own
                /\ recent # "None")
               => ("report" \in DOMAIN shown /\ shown.report = recent)
          /\ (agent_type \in routed /\ "report" \in DOMAIN own)
               => ("report" \in DOMAIN shown /\ shown.report = own.report)
          /\ (agent_type \notin routed /\ "report" \notin DOMAIN own)
               => "report" \notin DOMAIN shown]_vars

(***************************************************************************)
(* The summary of the knowledge graph: export_for_context on stores of up  *)
(* to twenty-two facts, some of them verified again after the others.      *)
(***************************************************************************)

\* summary = orchestrator.knowledge_graph.export_for_context()
Export(i) ==
  /\ Live(i)
  /\ Step(i, World(i), Call("export_for_context", i, ExportForContext(orch[i].kg), FALSE))
  /\ UNCHANGED snap

\* the nodes verified once more: the first, the second and the last two
ExportVerified == {<<1, 1>>, <<1, 2>>, <<1, 21>>, <<1, 22>>}

NextExport ==
  \/ Export(1)
  \/ \E id \in ExportVerified \cap NodeIds(orch[1]) : Verify(1, id)

SpecExport == InitFacts /\ [][NextExport]_vars

(* ---------------------- the claims on the summary --------------------- *)

\* C31: export_for_context returns total_nodes equal to the number of nodes,
\* verified_count equal to the number of nodes with status verified, and a
\* verified_facts sample of at most 20 verified nodes that are the
\* highest-confidence ones: no verified node left out of the sample has a
\* strictly higher confidence than a node in it.
C31_SampleHoldsHighestConfidence ==
  last.op = "export_for_context" =>
    LET nodes == orch[last.inst].kg.nodes
        verified == {n \in DOMAIN nodes : nodes[n].verification_status = "verified"}
        summary == last.arg
        sample == {n \in verified :
                     \E k \in DOMAIN summary.verified_facts :
                       summary.verified_facts[k].id = nodes[n].id}
    IN /\ summary.total_nodes = Len(nodes)
       /\ summary.verified_count = Cardinality(verified)
       /\ Len(summary.verified_facts) <= MaxVerifiedFacts
       /\ Cardinality(sample) = Len(summary.verified_facts)
       /\ \A out \in verified \ sample : \A in \in sample :
            nodes[out].confidence_score <= nodes[in].confidence_score

(* ------------------- the claims on the extended contexts -------------- *)

\* what the store holds for the worker types other than agent_type
OtherExtended(exts, ls, ds, agent_type) ==
  [a \in {b \in AgentTypes \ {agent_type} : exts[b].present} |->
     ExtendedValue(exts[a], ls, ds)]

\* C32: an extended context is private to its worker type:
\* update_extended_context(w, patch) and sync_context_after_agent(w, result)
\* change only the extended context of w; the extended context of every other
\* worker type, in every instance, is unchanged, after any sequence of aligns,
\* syncs and restores.
C32_ExtendedContextPrivate ==
  [][last'.op \in {"sync", "update_extended"} =>
       \A j \in Inst :
         OtherExtended(orch'[j].ext, lists', dicts', last'.arg.agent_type)
           = OtherExtended(orch[j].ext, lists, dicts, last'.arg.agent_type)]_vars

\* the writer's report was synced into an orchestrator restored from one whose
\* searcher stored a source and whose reviewer was aligned: both contexts are
\* there, next to the writer's
C32_Witness ==
  /\ last.op = "sync"
  /\ last.inst = 2
  /\ last.arg.agent_type = "writer"
  /\ OwnWorkingData(2, "writer") = [report |-> "r1"]
  /\ OwnSources(2, "searcher") = <<"s1">>
  /\ orch[2].ext["reviewer"].present

(***************************************************************************)
(* Patches of extended contexts: update_extended_context with patches of   *)
(* one and of several fields, on workers the store has seen and has not.   *)
(***************************************************************************)

\* the patches: list fields, the working data with keys old and new, the scalar
\* agent_type, and a key that is no field of the record
MergePatches ==
  {[source_references |-> <<"s1", "s2">>],
   [source_references |-> <<"s2">>, notes |-> <<"n1">>],
   [working_data |-> [report |-> "r1", draft |-> "d1"]],
   [working_data |-> [report |-> "r2"]],
   [agent_type |-> "renamed"],
   [unknown_key |-> "x", intermediate_results |-> <<"i1">>]}

MergeAgents == {"searcher", "writer"}

NextMerge == \E a \in MergeAgents, u \in MergePatches : UpdateExtended(1, a, u)

SpecMerge == Init /\ [][NextMerge]_vars

\* what the store holds for agent_type; the empty record when it holds none
StoredExtended(exts, ls, ds, agent_type) ==
  IF exts[agent_type].present THEN ExtendedValue(exts[agent_type], ls, ds)
  ELSE [agent_type |-> agent_type, working_data |-> EmptyDict,
        intermediate_results |-> <<>>, source_references |-> <<>>, notes |-> <<>>]

\* C33: update_extended_context merges by field type: a patched list field
\* becomes its old value followed by the patch elements in order, the patched
\* working data its old mapping overridden key by key by the patch, the patched
\* scalar agent_type the patch value; fields absent from the patch are unchanged,
\* keys that are no fields change nothing, and a first update on an unseen worker
\* type starts from an empty, lazily created record.
C33_MergeByFieldType ==
  [][last'.op = "update_extended" =>
       LET agent_type == last'.arg.agent_type
           updates == last'.arg.updates
           old == StoredExtended(orch[1].ext, lists, dicts, agent_type)
           new == StoredExtended(orch'[1].ext, lists', dicts', agent_type)
           Appended(f) == IF f \in DOMAIN updates THEN old[f] \o updates[f] ELSE old[f]
           patch == updates.working_data
       IN /\ orch'[1].ext[agent_type].present
          /\ new.intermediate_results = Appended("intermediate_results")
          /\ new.source_references = Appended("source_references")
          /\ new.notes = Appended("notes")
          /\ new.agent_type = IF "agent_type" \in DOMAIN updates
                              THEN updates.agent_type ELSE old.agent_type
          /\ IF "working_data" \in DOMAIN updates
             THEN /\ DOMAIN new.working_data
                       = (DOMAIN old.working_data) \cup (DOMAIN patch)
                  /\ \A k \in DOMAIN new.working_data :
                       new.working_data[k] = IF k \in DOMAIN patch THEN patch[k]
                                             ELSE old.working_data[k]
             ELSE new.working_data = old.working_data]_vars

\* the writer's working data held a report and a draft and was patched with a new
\* report; the searcher's sources were patched twice
C33_Witness ==
  /\ last.op = "update_extended"
  /\ last.arg.agent_type = "writer"
  /\ last.arg.updates = [working_data |-> [report |-> "r2"]]
  /\ OwnWorkingData(1, "writer") = [report |-> "r2", draft |-> "d1"]
  /\ OwnSources(1, "searcher") = <<"s1", "s2", "s2">>

(***************************************************************************)
(* The knowledge store on its own: nodes added by one call each, and the   *)
(* candidates detect_conflicts returns for a new content.                  *)
(***************************************************************************)

MaxGraphNodes == 3

\* orchestrator.knowledge_graph.add_node(node_type, content, [], created_by_agent)
AddNodeCall(i, node_type, content, created_by_agent) ==
  /\ Live(i)
  /\ orch[i].kg.node_counter < MaxGraphNodes
  /\ Step(i, AddNode(World(i), node_type, content, <<>>, created_by_agent,
                     DefaultConfidence),
          Call("add_node", i, [node_type |-> node_type, content |-> content,
                               created_by_agent |-> created_by_agent], FALSE))
  /\ UNCHANGED snap

\* orchestrator.knowledge_graph.detect_conflicts(new_content, node_type)
DetectConflictsCall(i, new_content, node_type) ==
  /\ Live(i)
  /\ Step(i, World(i),
          Call("detect_conflicts", i,
               [new_content |-> new_content, node_type |-> node_type,
                result |-> DetectConflicts(orch[i].kg, new_content, node_type)], FALSE))
  /\ UNCHANGED snap

\* contents of four and five words, one in capitals, one that shares three words
\* with the others; a candidate that is one of them and one with a comma
ConflictContents == {"a b c d", "A b c d e", "a b c x"}
ConflictCandidates == {"a b c d", "a, b c d"}
ConflictTypes == {"fact", "entity"}

NextConflicts ==
  \/ \E t \in ConflictTypes, c \in ConflictContents : AddNodeCall(1, t, c, "searcher")
  \/ \E t \in ConflictTypes, c \in ConflictCandidates : DetectConflictsCall(1, c, t)

SpecConflicts == Init /\ [][NextConflicts]_vars

(* ------------------ the claims on the knowledge store's queries ------- *)

\* C34: detect_conflicts(content, type) returns exactly the stored nodes of the
\* given type whose content shares more than 3 distinct tokens (the words of the
\* lowered text) with the given content, each once; no node of another type is
\* ever returned.
C34_ConflictsAreSameTypeOverlaps ==
  last.op = "detect_conflicts" =>
    LET nodes == orch[last.inst].kg.nodes
        result == last.arg.result
        tokens == WordSet(last.arg.new_content)
        expected == {n \in DOMAIN nodes :
                       /\ nodes[n].node_type = last.arg.node_type
                       /\ Cardinality(tokens \cap WordSet(nodes[n].content)) > 3}
    IN /\ {result[k].key : k \in DOMAIN result} = {nodes[n].key : n \in expected}
       /\ Len(result) = Cardinality(expected)
       /\ \A k \in DOMAIN result : result[k].node_type = last.arg.node_type

\* three fact nodes that share four words with the candidate are stored, and
\* detect_conflicts on the candidate returned the three
C34_Witness ==
  /\ last.op = "detect_conflicts"
  /\ last.arg.node_type = "fact"
  /\ last.arg.new_content = "a b c d"
  /\ Len(orch[1].kg.nodes) = 3
  /\ \A n \in DOMAIN orch[1].kg.nodes : orch[1].kg.nodes[n].node_type = "fact"
  /\ \E n \in DOMAIN orch[1].kg.nodes : orch[1].kg.nodes[n].content = "A b c d e"
  /\ Len(last.arg.result) = 3

(***************************************************************************)
(* Token estimates: estimate_tokens on the texts of up to MaxTextLen       *)
(* characters, Chinese and other, in every order.                          *)
(***************************************************************************)

MaxTextLen == 6

Texts == UNION {[1..n -> Chinese \cup OtherCharacters] : n \in 0..MaxTextLen}

InitTokens ==
  LET new == NewOrchestrator(<<>>, <<>>, 1, "q")
  IN /\ orch = [i \in Inst |-> IF i = 1 THEN new.o ELSE NoOrchestrator]
     /\ lists = new.lists
     /\ dicts = new.dicts
     /\ snap = NoSnapshot
     /\ \E text \in Texts :
          last = [op |-> "text", inst |-> 1, arg |-> [text |-> text], raised |-> FALSE,
                  n |-> 0, repeat |-> FALSE]
     /\ steps = 0
     /\ comp = NoCompression
     /\ pipe = NoRun

\* orchestrator.context_manager.estimate_tokens(text)
EstimateTokensCall ==
  /\ last.op = "text"
  /\ last' = Call("estimate_tokens", 1,
                  [text |-> last.arg.text, result |-> EstimateTokens(last.arg.text)],
                  FALSE)
  /\ steps' = steps + 1
  /\ UNCHANGED <<orch, lists, dicts, snap, comp, pipe>>

NextTokens == EstimateTokensCall

SpecTokens == InitTokens /\ [][NextTokens]_vars

\* C35: estimate_tokens(text) is the total cost of the text rounded down, each
\* CJK character costing 0.5 and every other character 0.25: for c CJK
\* characters and o other characters the result is floor((2*c + o) / 4).
C35_EstimateIsFloorOfTotalCost ==
  last.op = "estimate_tokens" =>
    LET text == last.arg.text
        c == Cardinality({i \in DOMAIN text : text[i] = "han"})
        o == Len(text) - c
    IN last.arg.result = (2 * c + o) \div 4

(* ------------------- the claims on what align leaves stored ----------- *)

\* C36: align_context_for_agent does not modify stored worker data: apart from
\* lazily creating an empty extended context for the aligned worker, the
\* working_data, intermediate_results, source_references and notes of every
\* worker's stored extended context are the same after the call as before it;
\* routed fields appear only in the returned bundle.
C36_AlignLeavesStoredData ==
  [][last'.op = "align" =>
       \A a \in AgentTypes :
         /\ StoredExtended(orch'[1].ext, lists', dicts', a)
              = StoredExtended(orch[1].ext, lists, dicts, a)
         /\ a # last'.arg.agent_type => orch'[1].ext[a].present = orch[1].ext[a].present]_vars

(***************************************************************************)
(* Rewrite rounds: ResearchWorkflow.run with agents whose results store    *)
(* what the agents of the repository store.  The writer stores the draft   *)
(* of its round, the citer the report of its bundle with the citations,    *)
(* the reviewer the round of its review; citer and reviewer return early   *)
(* when their bundle holds no report.                                      *)
(***************************************************************************)

\* the round of the run: 0 for the first pass, then one per rewrite round
Round(p) == IF p.phase = "main" THEN 0 ELSE p.rewrite_count + 1

\* the draft the writer generates in a round
Drafts == <<"r0", "r1", "r2", "r3">>

\* the report _add_citations returns for a report
Cited(report) ==
  CASE report = "r0" -> "r0 cited" [] report = "r1" -> "r1 cited"
    [] report = "r2" -> "r2 cited" [] report = "r3" -> "r3 cited"
    [] OTHER -> report

\* what execute(context) of an agent returns in a round
AgentResults(agent, context, round) ==
  LET working_data == context.extended_context.working_data
      has_report == "report" \in DOMAIN working_data
      Reviewed(passed) ==
        Result("reviewer", TRUE, [review |-> Review, passed |-> passed], <<>>,
               [extended |->
                  [working_data |->
                     [review_passed |-> passed,
                      review_round |-> DictGet(working_data, "review_round", 0) + 1]],
                core |->
                  [review_feedback |->
                     [passed |-> passed, overall_score |-> Review.overall_score,
                      critical_issues |-> Review.issues, suggestions |-> <<>>]]])
  IN CASE agent = "writer" ->
            {Result(agent, TRUE, EmptyDict, <<>>,
                    [extended |-> [working_data |-> [report |-> Drafts[round + 1]]]]),
             Result(agent, FALSE, EmptyDict, <<"err">>, EmptyDict)}
       [] agent = "citer" ->
            IF has_report
            THEN {Result(agent, TRUE, EmptyDict, <<>>,
                         [extended |->
                            [working_data |-> [report |-> Cited(working_data.report),
                                               citations |-> <<"s1">>]]])}
            ELSE {Result(agent, TRUE, EmptyDict, <<>>, EmptyDict)}
       [] agent = "reviewer" ->
            IF has_report THEN {Reviewed(FALSE), Reviewed(TRUE)}
            ELSE {Result(agent, TRUE, [review |-> EmptyDict, passed |-> FALSE], <<>>,
                         EmptyDict)}
       [] OTHER -> {Result(agent, TRUE, EmptyDict, <<>>, EmptyDict)}

\* result = await agent.execute(context), the agent answering to its bundle
ExecuteAgent ==
  /\ pipe.stage = "run"
  /\ pipe.step = "execute"
  /\ \E result \in AgentResults(pipe.agent, pipe.context, Round(pipe)) :
       ExecuteStep(result)

NextRewrite ==
  \/ StartRun("loop")
  \/ AlignStep
  \/ ExecuteAgent
  \/ SyncStep

SpecRewrite == Init /\ [][NextRewrite]_vars

(* --------------------- the claims on the rewrite rounds --------------- *)

\* the reports the results of this round stored: those of the results from the
\* writer's latest result on; none when the writer stored no report
WrittenThisRound(history) ==
  LET writers == {k \in DOMAIN history : history[k].agent_type = "writer"}
      latest == CHOOSE k \in writers : \A m \in writers : m <= k
  IN IF writers = {} THEN {}
     ELSE {history[k].context_changes.extended.working_data.report :
             k \in {m \in latest..Len(history) : HasReport(history[m])}}

\* C37: in every rewrite round in which the writer stored its draft, the report in
\* the bundle aligned for the citer and for the reviewer is a report written to
\* the store earlier in that same round, never one left over from a round before.
C37_RewriteRoundShowsItsReport ==
  (/\ pipe.stage = "run"
   /\ pipe.phase = "rewrite"
   /\ pipe.step = "execute"
   /\ pipe.agent \in {"citer", "reviewer"})
    => LET written == WrittenThisRound(orch[1].execution_history)
           shown == pipe.context.extended_context.working_data
       IN written # {} => ("report" \in DOMAIN shown /\ shown.report \in written)

(***************************************************************************)
(* The indices and the query cache of the knowledge store: nodes added,    *)
(* updated and searched, in an orchestrator and in one restored from it.   *)
(***************************************************************************)

\* orchestrator.knowledge_graph.search_nodes(keyword)
SearchNodesCall(i, keyword) ==
  /\ Live(i)
  /\ LET r == SearchNodes(orch[i].kg, keyword)
     IN Step(i, [World(i) EXCEPT !.o.kg = r.kg],
             Call("search_nodes", i, [keyword |-> keyword, result |-> r.result], FALSE))
  /\ UNCHANGED snap

\* the nodes agents add: type, content, creator
IndexedNodes ==
  {<<"fact", "ab cd", "searcher">>, <<"entity", "ab ef", "writer">>,
   <<"fact", "Ab, x", "searcher">>}

\* update_node patches of the content, the type and the creator
IndexPatches ==
  {[content |-> "ab ef"], [node_type |-> "entity"], [created_by_agent |-> "writer"]}

\* a word of the contents, a letter of them, and a word of one of them
Keywords == {"ab", "b", "cd"}

NextIndex ==
  \/ \E i \in Inst, n \in IndexedNodes : AddNodeCall(i, n[1], n[2], n[3])
  \/ \E i \in Inst : \E id \in NodeIds(orch[i]), u \in IndexPatches :
       UpdateNodeCall(i, id, u)
  \/ \E i \in Inst, keyword \in Keywords : SearchNodesCall(i, keyword)
  \/ Restore(FALSE, StateKeys)

SpecIndex == Init /\ [][NextIndex]_vars

(* ------------------------ the claims on the indices ------------------- *)

\* how often an id is listed under the keys of an index
Listed(index, id) ==
  [key \in DOMAIN index |-> Cardinality({k \in DOMAIN index[key] : index[key][k] = id})]

\* the ids an index names
Named(index) == UNION {{index[key][k] : k \in DOMAIN index[key]} : key \in DOMAIN index}

\* C38: the three indices of the knowledge store are consistent with its nodes in
\* every reachable state (after add_node, update_node and restore through
\* from_dict): each node id appears exactly once in the type index, under the
\* node's current type, exactly once in the creator index, under its creator,
\* and in the content index under every token of its current content, and the
\* indices name no id that is not a node.
C38_IndicesConsistent ==
  \A i \in Inst :
    LET kg == orch[i].kg
        ids == {kg.nodes[n].id : n \in DOMAIN kg.nodes}
        OnceUnder(index, key, id) ==
          /\ key \in DOMAIN index
          /\ \A k \in DOMAIN index : Listed(index, id)[k] = IF k = key THEN 1 ELSE 0
    IN /\ \A n \in DOMAIN kg.nodes :
            LET node == kg.nodes[n]
                tokens == TokenizeContent(node.content)
            IN /\ OnceUnder(kg.type_index, node.node_type, node.id)
               /\ OnceUnder(kg.agent_index, node.created_by_agent, node.id)
               /\ \A t \in DOMAIN tokens :
                    /\ tokens[t] \in DOMAIN kg.content_index
                    /\ Listed(kg.content_index, node.id)[tokens[t]] >= 1
       /\ Named(kg.type_index) \cup Named(kg.agent_index) \cup Named(kg.content_index)
            \subseteq ids

\* C39: the query cache of search_nodes is advisory: search_nodes(keyword)
\* returns the same set of nodes as an uncached search over the current store
\* would (the union of the index candidates for the keyword's tokens, or the
\* full substring scan when there are none), and the cache never holds more
\* than 100 queries.
C39_CacheIsAdvisory ==
  /\ \A i \in Inst : Cardinality(DOMAIN orch[i].kg.query_cache) <= 100
  /\ last.op = "search_nodes" =>
       LET kg == orch[last.inst].kg
       IN last.arg.result
            = CandidateIds(kg, last.arg.keyword)
                \cap {kg.nodes[n].key : n \in DOMAIN kg.nodes}

(***************************************************************************)
(* The end of ResearchWorkflow.run: runs of the loop driver whose planner  *)
(* and searcher may also fail without naming an error, and whose agents'   *)
(* execute may raise.                                                      *)
(***************************************************************************)

\* the results of a run of the loop: the planner and the searcher succeed, fail
\* with an error or fail with none, the searcher also hands a node without content,
\* the curator succeeds or fails with an error, the reviewer rejects, passes or
\* fails with an error
LoopResults(agent) ==
  {Result(agent, TRUE, EmptyDict, <<>>, EmptyDict)}
  \cup (IF agent \in {"planner", "searcher"}
        THEN {Result(agent, FALSE, EmptyDict, <<"err">>, EmptyDict),
              Result(agent, FALSE, EmptyDict, <<>>, EmptyDict)}
        ELSE {})
  \cup (IF agent = "searcher"
        THEN {Result(agent, TRUE, [knowledge_nodes |-> <<NodeWithoutContent>>], <<>>,
                     EmptyDict)}
        ELSE {})
  \cup (IF agent = "curator"
        THEN {Result(agent, FALSE, EmptyDict, <<"err">>, EmptyDict)}
        ELSE {})
  \cup (IF agent = "reviewer"
        THEN {Result(agent, TRUE, [review |-> Review, passed |-> FALSE], <<>>, EmptyDict),
              Result(agent, TRUE, [review |-> Review, passed |-> TRUE], <<>>, EmptyDict),
              Result(agent, FALSE, EmptyDict, <<"err">>, EmptyDict)}
        ELSE {})

\* await agent.execute(context) raises: run's except block ends the run
ExecuteRaises ==
  /\ pipe.stage = "run"
  /\ pipe.step = "execute"
  /\ pipe' = AfterRaise([pipe EXCEPT !.context = NoContext,
                                     !.trace = Append(@, <<"execute", pipe.agent>>)])
  /\ UNCHANGED <<storeVars, comp>>

NextLoop ==
  \/ StartRun("loop")
  \/ AlignStep
  \/ \E agent \in AgentTypes : \E result \in LoopResults(agent) : ExecuteStep(result)
  \/ ExecuteRaises
  \/ SyncStep

SpecLoop == Init /\ [][NextLoop]_vars

\* C40: ResearchWorkflow.run ends with status failed only if the planner or the
\* searcher returned success=false with a non-empty error list or an exception
\* escaped a step; every other run ends with status completed, also when the
\* review feedback still has passed=false after the last allowed rewrite round.
C40_FailedOnlyOnCriticalFailureOrException ==
  pipe.stage = "returned" =>
    LET history == orch[1].execution_history
        critical == {k \in DOMAIN history :
                       /\ history[k].agent_type \in {"planner", "searcher"}
                       /\ ~history[k].success
                       /\ history[k].errors # <<>>}
    IN IF critical # {} \/ pipe.raised
       THEN pipe.status = "failed"
       ELSE pipe.status = "completed"

\* a run that used up its rewrite rounds with the review still rejecting, and
\* returned completed
C40_Witness ==
  /\ pipe.stage = "returned"
  /\ pipe.rewrite_count = MaxRewrites
  /\ ~pipe.raised
  /\ orch[1].core.review_feedback # EmptyDict
  /\ ~orch[1].core.review_feedback.passed
  /\ pipe.status = "completed"

====
